---- MODULE Spec2Model ----
(***************************************************************************)
(* The points / referral ledger of perpX-official/management.              *)
(*                                                                         *)
(* Two implementations of the same operations are modelled: the            *)
(* database-backed one (server/db.ts, here src/unnamed/part_000) and the   *)
(* in-memory one (src/server/mockStore.ts).                                *)
(*                                                                         *)
(*   Spec        every operation runs to completion, one at a time, on     *)
(*               either implementation (impl is chosen in Init).           *)
(*   SpecRefund  Spec on the database, with the X-connect bonus literal    *)
(*               changing between deployments.                             *)
(*   SpecPoints  concurrent addPoints calls on the database, one step per  *)
(*               awaited store call, any store call may reject.            *)
(*   SpecCode    concurrent connect / verify / getOrCreateReferralCode     *)
(*               requests on the database, one step per awaited call.      *)
(*   SpecApply   concurrent applyReferralCode requests.                    *)
(*   SpecDaily   concurrent completeDailyPost / claimReferralBonus         *)
(*               requests on the database.                                 *)
(*   SpecBonus   concurrent claimConnectBonus requests on the database.    *)
(*   SpecSweep   the tweet sweeps and revokeTweetPoints as concurrent      *)
(*               requests on the database.                                 *)
(*   SpecMembership  Spec on a database that an earlier build, with        *)
(*               another verify bonus, may have written.                   *)
(*   SpecStats   one referrer and two invited wallets.                     *)
(*   SpecCase    addresses typed in either letter case.                    *)
(*   SpecTier    the two tier functions called with a referral count.      *)
(*   SpecDiscord verify, disconnect and the membership checks as           *)
(*               concurrent requests on the database.                      *)
(*   SpecEquiv   the two implementations run side by side on the same      *)
(*               calls.                                                    *)
(*   SpecToken   Spec with nanoid drawing from a small set of tokens.      *)
(*   SpecAdmin   the admin procedures, called with or without a password   *)
(*               check before them.                                        *)
(*   SpecHistory rewards.getHistory on the stores Spec reaches.            *)
(*   SpecOAuth   the X and Discord OAuth routes and their pending states.  *)
(***************************************************************************)
EXTENDS Integers, Sequences, FiniteSets, TLC

VARIABLES profiles, history, completions, referrals, codeSeq, xBonus,
          impl, procs, collation, mock, pendingOAuthStates,
          pendingDiscordStates

vars == <<profiles, history, completions, referrals, codeSeq, xBonus,
          impl, procs, collation, mock, pendingOAuthStates,
          pendingDiscordStates>>

\* the two maps of pending OAuth states of the social routes
oauth_vars == <<pendingOAuthStates, pendingDiscordStates>>

store_vars == <<profiles, history, completions, referrals, codeSeq>>

(***************************************************************************)
(* Bounds of the model.                                                    *)
(***************************************************************************)
\* rows PointsHistory may hold in the run-to-completion specifications
MaxHistory == 3
\* concurrent requests in the interleaved specifications
NumProcs == 2

Wallets == {"w1", "w2"}
\* the address strings a profile row can be keyed by: the callers above, a
\* third wallet, and the address of w1 written in another letter case
Addresses == Wallets \cup {"w3", "W1"}
\* how the database compares the strings of an address column: without or
\* with regard to letter case.  The schema names no collation, so it is the
\* one the server or the table was created with
Collations == {"ci", "cs"}
\* where every wallet is written in one spelling both collations compare
\* alike; the specifications that do so run under this one
OneSpelling == "ci"
Procs == 1..NumProcs

Null == "null"
Now == "ts"
Today == "2026-01-01"
XNames == {"alice"}
DiscordNames == {"bob"}
DiscordIds == {Null, "d1"}
TweetUrls == {Null, "http"}
AdjustDeltas == {-30}

\* HTTP statuses the adapters see; NetErr stands for a rejected fetch
NetErr == 0
MemberStatuses == {200, 404, 500, NetErr}
TweetStatuses == {200, 404, 403, 500, NetErr}

(***************************************************************************)
(* Rows.                                                                   *)
(***************************************************************************)
NewProfile ==
  [ exists |-> TRUE, totalPoints |-> 0, connectBonusClaimed |-> FALSE,
    xConnected |-> FALSE, xUsername |-> Null, xConnectedAt |-> Null,
    discordConnected |-> FALSE, discordUsername |-> Null, discordId |-> Null,
    discordConnectedAt |-> Null, discordVerified |-> FALSE,
    discordVerifiedAt |-> Null, referralCode |-> Null, referredBy |-> Null,
    referralCount |-> 0, referralPointsEarned |-> 0 ]

\* a wallet address no profile row has been created for
NoProfile == [NewProfile EXCEPT !.exists = FALSE]

HistoryRow(w, type, pts, bal) ==
  [walletAddress |-> w, transactionType |-> type, pointsChange |-> pts,
   balanceAfter |-> bal]

CompletionRow(w, pts, meta) ==
  [walletAddress |-> w, taskType |-> "daily_post", pointsAwarded |-> pts,
   completionDate |-> Today, metadata |-> meta, status |-> "active",
   revokedAt |-> Null]

ReferralRow(referrer, referred, code) ==
  [referrerWallet |-> referrer, referredWallet |-> referred,
   referralCode |-> code, referrerPoints |-> 0, referredPoints |-> 0,
   referrerClaimed |-> FALSE, referredClaimed |-> FALSE, claimedAt |-> Null]

\* the store as one value, so that an operation is a function on stores
Store ==
  [profiles |-> profiles, history |-> history, completions |-> completions,
   referrals |-> referrals, codeSeq |-> codeSeq]

EmptyStore ==
  [profiles |-> [w \in Addresses |-> NoProfile], history |-> <<>>,
   completions |-> <<>>, referrals |-> <<>>, codeSeq |-> 0]

\* the second store of the specification that runs both implementations
\* side by side, where one implementation runs alone
NoStore == Null

\* the state strings generateRandomString(32) can draw
OAuthStates == {"s1", "s2"}

\* a map of pending OAuth states with no entry
NoPending == [state \in OAuthStates |-> Null]

\* the counters a sweep returns: checked, revoked, errors
NoCounts == [checked |-> 0, revoked |-> 0, errors |-> 0]

\* what an operation returns, with the store it leaves
Res(s, ok, msg) == [s |-> s, ok |-> ok, msg |-> msg, counts |-> NoCounts]

(***************************************************************************)
(* Helpers on rows.                                                        *)
(***************************************************************************)
RECURSIVE SumOver(_, _)
\* sum of pointsChange over the rows of h at the indices I
SumOver(h, I) ==
  IF I = {} THEN 0
  ELSE LET i == CHOOSE j \in I : TRUE
       IN h[i].pointsChange + SumOver(h, I \ {i})

\* sum of pointsChange over the wallet's PointsHistory rows
HistorySum(h, w) ==
  SumOver(h, {i \in 1..Len(h) : h[i].walletAddress = w})

\* sum of pointsChange over the wallet's rows of the given types
TypedSum(h, w, types) ==
  SumOver(h, {i \in 1..Len(h) : /\ h[i].walletAddress = w
                                /\ h[i].transactionType \in types})

RowsOf(h, w, type) ==
  {i \in 1..Len(h) : h[i].walletAddress = w /\ h[i].transactionType = type}

Max(S) == CHOOSE x \in S : \A y \in S : y <= x

\* nanoid(8).toUpperCase(): the n-th token drawn, all tokens distinct
NanoId(n) == "C" \o ToString(n)
\* a lower-case spelling of the n-th token, as a user may type it
LowerCode(n) == "c" \o ToString(n)
ToUpperCase(c) ==
  IF \E n \in 1..(2 * Cardinality(Wallets)) : c = LowerCode(n)
    THEN NanoId(CHOOSE n \in 1..(2 * Cardinality(Wallets)) : c = LowerCode(n))
    ELSE c

(***************************************************************************)
(* Database-backed implementation, each function run to completion.        *)
(***************************************************************************)
DbGetOrCreateWalletProfile(s, w) ==
  IF s.profiles[w].exists THEN s
  ELSE [s EXCEPT !.profiles[w] = NewProfile]

\* a mutant: the history row carries the balance before the change
DbAddPoints_StaleBalance(s, w, pts, type) ==
  IF ~s.profiles[w].exists THEN s
  ELSE [s EXCEPT !.profiles[w].totalPoints = @ + pts,
                 !.history = Append(@, HistoryRow(w, type, pts,
                                      s.profiles[w].totalPoints))]

\* a mutant: the total is updated and no history row is written
DbAddPoints_NoRow(s, w, pts, type) ==
  IF ~s.profiles[w].exists THEN s
  ELSE [s EXCEPT !.profiles[w].totalPoints = @ + pts]

DbAddPoints(s, w, pts, type) ==
  IF ~s.profiles[w].exists THEN s
  ELSE LET newTotal == s.profiles[w].totalPoints + pts
       IN [s EXCEPT !.profiles[w].totalPoints = newTotal,
                    !.history = Append(@, HistoryRow(w, type, pts, newTotal))]

\* a mutant: the fallback is returned whatever the history holds
GetOriginalBonusPoints_Fallback(s, w, type, fallback) == fallback

GetOriginalBonusPoints(s, w, type, fallback) ==
  LET rows == RowsOf(s.history, w, type)
  IN IF rows # {} /\ s.history[Max(rows)].pointsChange > 0
       THEN s.history[Max(rows)].pointsChange
       ELSE fallback

\* a mutant: a revoked completion counts as completed
HasCompletedTask_AnyStatus(s, w, date) ==
  \E i \in 1..Len(s.completions) :
     /\ s.completions[i].walletAddress = w
     /\ s.completions[i].taskType = "daily_post"
     /\ s.completions[i].completionDate = date

HasCompletedTask(s, w, date) ==
  \E i \in 1..Len(s.completions) :
     /\ s.completions[i].walletAddress = w
     /\ s.completions[i].taskType = "daily_post"
     /\ s.completions[i].completionDate = date
     /\ s.completions[i].status = "active"

CompleteTask(s, w, pts, meta) ==
  [s EXCEPT !.completions = Append(@, CompletionRow(w, pts, meta))]

DbClaimConnectBonus(s, w) ==
  IF ~s.profiles[w].exists THEN Res(s, FALSE, "Profile not found")
  ELSE IF s.profiles[w].connectBonusClaimed
    THEN Res(s, FALSE, "Connect bonus already claimed")
  ELSE LET s1 == [s EXCEPT !.profiles[w].connectBonusClaimed = TRUE]
       IN Res(DbAddPoints(s1, w, 300, "connect_bonus"), TRUE, "Earned")

\* the referral row of a referred wallet (select ... limit 1), 0 when none
ReferralOf(s, w) ==
  LET rows == {i \in 1..Len(s.referrals) : s.referrals[i].referredWallet = w}
  IN IF rows = {} THEN 0 ELSE CHOOSE i \in rows : \A j \in rows : i <= j

DbClaimReferralBonus(s, w) ==
  LET i == ReferralOf(s, w) IN
  IF i = 0 THEN Res(s, FALSE, "No referral found for this wallet")
  ELSE IF s.referrals[i].referrerClaimed
    THEN Res(s, FALSE, "Referral bonus already claimed")
  ELSE
    LET referrer == s.referrals[i].referrerWallet
        s1 == DbAddPoints(s, referrer, 50, "referral_bonus")
        s2 == DbAddPoints(s1, w, 50, "referral_bonus")
        s3 == IF s2.profiles[referrer].exists
                THEN [s2 EXCEPT !.profiles[referrer].referralCount = @ + 1,
                                !.profiles[referrer].referralPointsEarned = @ + 50]
                ELSE s2
        s4 == [s3 EXCEPT !.referrals[i].referrerClaimed = TRUE,
                         !.referrals[i].referredClaimed = TRUE,
                         !.referrals[i].claimedAt = Now,
                         !.referrals[i].referrerPoints = 50,
                         !.referrals[i].referredPoints = 50]
    IN Res(s4, TRUE, "Referral bonus claimed!")

\* a mutant: the helper never claims
DbMaybeClaimReferralBonus_Never(s, w) == s

DbMaybeClaimReferralBonus(s, w) ==
  IF ~s.profiles[w].exists \/ s.profiles[w].referredBy = Null THEN s
  ELSE LET i == ReferralOf(s, w)
       IN IF i # 0 /\ ~s.referrals[i].referrerClaimed
            THEN DbClaimReferralBonus(s, w).s
            ELSE s

AllThree(p) == p.xConnected /\ p.discordConnected /\ p.discordVerified

\* a mutant: the Discord-verified condition is not checked
DbMaybeGenerateReferralCode_NoVerify(s, w) ==
  LET p == s.profiles[w] IN
  IF p.exists /\ p.xConnected /\ p.discordConnected /\ p.referralCode = Null
    THEN [s EXCEPT !.profiles[w].referralCode = NanoId(s.codeSeq + 1),
                   !.codeSeq = @ + 1]
    ELSE s

DbMaybeGenerateReferralCode(s, w) ==
  LET p == s.profiles[w] IN
  IF p.exists /\ AllThree(p) /\ p.referralCode = Null
    THEN [s EXCEPT !.profiles[w].referralCode = NanoId(s.codeSeq + 1),
                   !.codeSeq = @ + 1]
    ELSE s

DbConnectXAccount(s, w, xUsername, bonusPoints) ==
  IF ~s.profiles[w].exists THEN Res(s, FALSE, "Profile not found")
  ELSE IF s.profiles[w].xConnected
    THEN Res(s, FALSE, "X account already connected")
  ELSE
    LET s1 == [s EXCEPT !.profiles[w].xConnected = TRUE,
                        !.profiles[w].xUsername = xUsername,
                        !.profiles[w].xConnectedAt = Now]
        s2 == DbAddPoints(s1, w, bonusPoints, "x_connect")
        s3 == DbMaybeGenerateReferralCode(s2, w)
    IN Res(DbMaybeClaimReferralBonus(s3, w), TRUE, "Earned")

\* a mutant: the refusal of a wallet that is not connected still deducts
DbDisconnectXAccount_DeductsAnyway(s, w, fallback) ==
  IF ~s.profiles[w].exists THEN Res(s, FALSE, "Profile not found")
  ELSE IF ~s.profiles[w].xConnected
    THEN Res(DbAddPoints(s, w, -fallback, "x_disconnect"), FALSE,
             "X account not connected")
  ELSE
    LET s1 == [s EXCEPT !.profiles[w].xConnected = FALSE,
                        !.profiles[w].xUsername = Null,
                        !.profiles[w].xConnectedAt = Null]
        originalBonus == GetOriginalBonusPoints(s1, w, "x_connect", fallback)
    IN Res(DbAddPoints(s1, w, -originalBonus, "x_disconnect"), TRUE,
           "X account disconnected")

DbDisconnectXAccount(s, w, fallback) ==
  IF ~s.profiles[w].exists THEN Res(s, FALSE, "Profile not found")
  ELSE IF ~s.profiles[w].xConnected
    THEN Res(s, FALSE, "X account not connected")
  ELSE
    LET s1 == [s EXCEPT !.profiles[w].xConnected = FALSE,
                        !.profiles[w].xUsername = Null,
                        !.profiles[w].xConnectedAt = Null]
        originalBonus == GetOriginalBonusPoints(s1, w, "x_connect", fallback)
    IN Res(DbAddPoints(s1, w, -originalBonus, "x_disconnect"), TRUE,
           "X account disconnected")

DbConnectDiscordAccount(s, w, discordUsername, discordId) ==
  IF ~s.profiles[w].exists THEN Res(s, FALSE, "Profile not found")
  ELSE IF s.profiles[w].discordConnected
    THEN Res(s, FALSE, "Discord account already connected")
  ELSE
    LET s1 == [s EXCEPT !.profiles[w].discordConnected = TRUE,
                        !.profiles[w].discordUsername = discordUsername,
                        !.profiles[w].discordId = discordId,
                        !.profiles[w].discordConnectedAt = Now]
        s2 == DbAddPoints(s1, w, 50, "discord_connect")
        s3 == DbMaybeGenerateReferralCode(s2, w)
    IN Res(DbMaybeClaimReferralBonus(s3, w), TRUE, "Earned")

DbDisconnectDiscordAccount(s, w) ==
  IF ~s.profiles[w].exists THEN Res(s, FALSE, "Profile not found")
  ELSE IF ~s.profiles[w].discordConnected
    THEN Res(s, FALSE, "Discord account not connected")
  ELSE
    LET wasVerified == s.profiles[w].discordVerified
        s1 == [s EXCEPT !.profiles[w].discordConnected = FALSE,
                        !.profiles[w].discordUsername = Null,
                        !.profiles[w].discordId = Null,
                        !.profiles[w].discordConnectedAt = Null,
                        !.profiles[w].discordVerified = FALSE,
                        !.profiles[w].discordVerifiedAt = Null]
        connectBonus == GetOriginalBonusPoints(s1, w, "discord_connect", 50)
        s2 == DbAddPoints(s1, w, -connectBonus, "discord_disconnect")
        verifyBonus == GetOriginalBonusPoints(s2, w, "discord_verify", 50)
        s3 == IF wasVerified
                THEN DbAddPoints(s2, w, -verifyBonus, "discord_verify_revoked")
                ELSE s2
    IN Res(s3, TRUE, "Discord account disconnected")

DbVerifyDiscordServer(s, w, status) ==
  IF ~s.profiles[w].exists THEN Res(s, FALSE, "Profile not found")
  ELSE IF ~s.profiles[w].discordConnected
    THEN Res(s, FALSE, "Discord account must be connected first")
  ELSE IF s.profiles[w].discordVerified
    THEN Res(s, FALSE, "Discord server already verified")
  ELSE IF s.profiles[w].discordId = Null
    THEN Res(s, FALSE, "Discord ID not found")
  ELSE IF status = 404
    THEN Res(s, FALSE, "You are not a member of the PerpX Discord server")
  ELSE IF status # 200
    THEN Res(s, FALSE, "Failed to verify Discord membership")
  ELSE
    LET s1 == [s EXCEPT !.profiles[w].discordVerified = TRUE,
                        !.profiles[w].discordVerifiedAt = Now]
        s2 == DbAddPoints(s1, w, 50, "discord_verify")
        s3 == DbMaybeGenerateReferralCode(s2, w)
    IN Res(DbMaybeClaimReferralBonus(s3, w), TRUE, "Earned")

\* a mutant: the X connection is not asked for
DbCompleteDailyPost_NoXCheck(s, w, tweetUrl) ==
  LET profile == s.profiles[w] IN
  IF ~profile.exists THEN Res(s, FALSE, "Profile not found")
  ELSE IF HasCompletedTask(s, w, Today)
    THEN Res(s, FALSE, "Daily post already completed today")
  ELSE
    LET s1 == CompleteTask(s, w, 100, tweetUrl)
        s2 == DbAddPoints(s1, w, 100, "daily_post")
        i == ReferralOf(s2, w)
        s3 == IF profile.referredBy # Null /\ i # 0
                 /\ ~s2.referrals[i].referrerClaimed
                THEN DbClaimReferralBonus(s2, w).s
                ELSE s2
    IN Res(s3, TRUE, "Earned")

DbCompleteDailyPost(s, w, tweetUrl) ==
  LET profile == s.profiles[w] IN
  IF ~profile.exists THEN Res(s, FALSE, "Profile not found")
  ELSE IF ~profile.xConnected
    THEN Res(s, FALSE, "X account must be connected first")
  ELSE IF HasCompletedTask(s, w, Today)
    THEN Res(s, FALSE, "Daily post already completed today")
  ELSE
    LET s1 == CompleteTask(s, w, 100, tweetUrl)
        s2 == DbAddPoints(s1, w, 100, "daily_post")
        i == ReferralOf(s2, w)
        s3 == IF profile.referredBy # Null /\ i # 0
                 /\ ~s2.referrals[i].referrerClaimed
                THEN DbClaimReferralBonus(s2, w).s
                ELSE s2
    IN Res(s3, TRUE, "Earned")

\* a mutant: the status of the completion is not looked at
DbRevokeTweetPoints_NoGuard(s, id) ==
  IF id \notin 1..Len(s.completions)
    THEN Res(s, FALSE, "Task completion not found")
  ELSE
    LET task == s.completions[id]
        s1 == [s EXCEPT !.completions[id].status = "revoked",
                        !.completions[id].revokedAt = Now]
    IN Res(DbAddPoints(s1, task.walletAddress, -task.pointsAwarded,
                       "tweet_revoked"), TRUE, "Revoked")

DbRevokeTweetPoints(s, id) ==
  IF id \notin 1..Len(s.completions)
    THEN Res(s, FALSE, "Task completion not found")
  ELSE IF s.completions[id].status = "revoked"
    THEN Res(s, FALSE, "Already revoked")
  ELSE
    LET task == s.completions[id]
        s1 == [s EXCEPT !.completions[id].status = "revoked",
                        !.completions[id].revokedAt = Now]
    IN Res(DbAddPoints(s1, task.walletAddress, -task.pointsAwarded,
                       "tweet_revoked"), TRUE, "Revoked")

DbGetOrCreateReferralCode(s, w) ==
  LET p == s.profiles[w] IN
  IF ~p.exists THEN Res(s, FALSE, Null)
  ELSE IF ~AllThree(p) THEN Res(s, FALSE, Null)
  ELSE IF p.referralCode # Null THEN Res(s, TRUE, p.referralCode)
  ELSE Res([s EXCEPT !.profiles[w].referralCode = NanoId(s.codeSeq + 1),
                     !.codeSeq = @ + 1], TRUE, NanoId(s.codeSeq + 1))

\* the profile whose referral_code equals the code (select ... limit 1)
ReferrerByCode(s, code) ==
  {r \in Addresses : s.profiles[r].exists /\ s.profiles[r].referralCode = code}

\* a mutant: referrals.referredWallet carries no unique index
DuplicateReferred_NoConstraint(s, w) == FALSE

\* the unique index on referrals.referredWallet rejects a second row for w
DuplicateReferred(s, w) == ReferralOf(s, w) # 0

\* a mutant: the owner of the code is not compared with the caller
DbApplyReferralCode_NoSelfCheck(s, w, referralCode) ==
  LET code == ToUpperCase(referralCode)
      found == ReferrerByCode(s, code)
  IN
  IF ~s.profiles[w].exists THEN Res(s, FALSE, "Profile not found")
  ELSE IF s.profiles[w].referredBy # Null
    THEN Res(s, FALSE, "You have already used a referral code")
  ELSE IF found = {} THEN Res(s, FALSE, "Invalid referral code")
  ELSE
    LET referrer == CHOOSE r \in found : TRUE IN
    IF ~AllThree(s.profiles[referrer])
      THEN Res(s, FALSE, "This referral code is currently inactive")
    ELSE IF ReferralOf(s, w) # 0 THEN Res(s, FALSE, "throws")
    ELSE Res([s EXCEPT !.referrals = Append(@, ReferralRow(referrer, w, code)),
                       !.profiles[w].referredBy = code],
             TRUE, "Referral code applied!")

DbApplyReferralCode(s, w, referralCode) ==
  LET code == ToUpperCase(referralCode)
      found == ReferrerByCode(s, code)
  IN
  IF ~s.profiles[w].exists THEN Res(s, FALSE, "Profile not found")
  ELSE IF s.profiles[w].referredBy # Null
    THEN Res(s, FALSE, "You have already used a referral code")
  ELSE IF found = {} THEN Res(s, FALSE, "Invalid referral code")
  ELSE
    LET referrer == CHOOSE r \in found : TRUE IN
    IF referrer = w
      THEN Res(s, FALSE, "You cannot use your own referral code")
    ELSE IF ~AllThree(s.profiles[referrer])
      THEN Res(s, FALSE, "This referral code is currently inactive")
    \* referred_wallet is unique: a second row for the wallet is rejected
    ELSE IF DuplicateReferred(s, w) THEN Res(s, FALSE, "throws")
    ELSE Res([s EXCEPT !.referrals = Append(@, ReferralRow(referrer, w, code)),
                       !.profiles[w].referredBy = code],
             TRUE, "Referral code applied!")

DbAdjustUserPoints(s, w, pointsChange) ==
  IF ~s.profiles[w].exists THEN Res(s, FALSE, "Profile not found")
  ELSE Res(DbAddPoints(s, w, pointsChange, "admin_adjustment"), TRUE,
           "Points adjusted")


\* a mutant: a 403 is taken for an indeterminate answer
CheckTweetExists_Only404(status) ==
  IF status = 200 THEN TRUE
  ELSE IF status = 404 THEN FALSE
  ELSE TRUE

CheckTweetExists(status) ==
  IF status = 200 THEN TRUE
  ELSE IF status = 404 \/ status = 403 THEN FALSE
  ELSE TRUE

\* a mutant: every answer but 200 is taken for an absence
DbCheckUserDiscordMembership_FailClosed(s, w, status) ==
  LET p == s.profiles[w] IN
  IF ~p.exists \/ ~p.discordVerified \/ p.discordId = Null
    THEN Res(s, TRUE, "stillMember")
  ELSE IF status # 200
    THEN LET s1 == [s EXCEPT !.profiles[w].discordVerified = FALSE,
                             !.profiles[w].discordVerifiedAt = Null]
             verifyBonus == GetOriginalBonusPoints(s1, w, "discord_verify", 50)
         IN Res(DbAddPoints(s1, w, -verifyBonus, "discord_verify_revoked"),
                TRUE, "revoked")
  ELSE Res(s, TRUE, "stillMember")

DbCheckUserDiscordMembership(s, w, status) ==
  LET p == s.profiles[w] IN
  IF ~p.exists \/ ~p.discordVerified \/ p.discordId = Null
    THEN Res(s, TRUE, "stillMember")
  ELSE IF status = 404
    THEN LET s1 == [s EXCEPT !.profiles[w].discordVerified = FALSE,
                             !.profiles[w].discordVerifiedAt = Null]
             verifyBonus == GetOriginalBonusPoints(s1, w, "discord_verify", 50)
         IN Res(DbAddPoints(s1, w, -verifyBonus, "discord_verify_revoked"),
                TRUE, "revoked")
  ELSE Res(s, TRUE, "stillMember")

\* the wallets the batch sweep reads at its start
VerifiedUsers(s) ==
  {w \in Addresses : /\ s.profiles[w].exists
                     /\ s.profiles[w].discordVerified
                     /\ s.profiles[w].discordId # Null}

RECURSIVE MembershipLoop(_, _, _, _)
MembershipLoop(s, todo, statusOf, c) ==
  IF todo = {} THEN [Res(s, TRUE, "sweep") EXCEPT !.counts = c]
  ELSE
    LET user == CHOOSE u \in todo : TRUE
        status == statusOf[user]
        s1 == [s EXCEPT !.profiles[user].discordVerified = FALSE,
                        !.profiles[user].discordVerifiedAt = Null]
    IN IF status = NetErr
         THEN MembershipLoop(s, todo \ {user}, statusOf,
                             [c EXCEPT !.errors = @ + 1])
       ELSE IF status = 404
         THEN MembershipLoop(
                DbAddPoints(s1, user, -50, "discord_verify_revoked"),
                todo \ {user}, statusOf,
                [c EXCEPT !.checked = @ + 1, !.revoked = @ + 1])
       ELSE IF status # 200
         THEN MembershipLoop(s, todo \ {user}, statusOf,
                             [c EXCEPT !.checked = @ + 1, !.errors = @ + 1])
       ELSE MembershipLoop(s, todo \ {user}, statusOf,
                           [c EXCEPT !.checked = @ + 1])

DbCheckDiscordServerMemberships(s, statusOf) ==
  MembershipLoop(s, VerifiedUsers(s), statusOf, NoCounts)

\* ids of the active daily-post completions that carry a tweet URL
ActiveTweetCompletions(s, ws) ==
  {i \in 1..Len(s.completions) :
     /\ s.completions[i].taskType = "daily_post"
     /\ s.completions[i].status = "active"
     /\ s.completions[i].metadata = "http"
     /\ s.completions[i].walletAddress \in ws}

RECURSIVE TweetLoop(_, _, _, _)
\* both tweet sweeps: newest completion first, revoke when the tweet is gone
TweetLoop(s, todo, statusOf, c) ==
  IF todo = {} THEN [Res(s, TRUE, "sweep") EXCEPT !.counts = c]
  ELSE
    LET id == Max(todo)
        r == DbRevokeTweetPoints(s, id)
    IN IF CheckTweetExists(statusOf[id])
         THEN TweetLoop(s, todo \ {id}, statusOf, [c EXCEPT !.checked = @ + 1])
       ELSE TweetLoop(r.s, todo \ {id}, statusOf,
                      [c EXCEPT !.checked = @ + 1,
                                !.revoked = @ + (IF r.ok THEN 1 ELSE 0)])

DbCheckAndRevokeDeletedTweets(s, w, statusOf) ==
  TweetLoop(s, ActiveTweetCompletions(s, {w}), statusOf, NoCounts)

DbCronCheckAllTweets(s, statusOf) ==
  TweetLoop(s, ActiveTweetCompletions(s, Addresses), statusOf, NoCounts)

(***************************************************************************)
(* In-memory implementation (mockStore.ts); every function is synchronous. *)
(***************************************************************************)
EnsureProfile(s, w) ==
  IF s.profiles[w].exists THEN s
  ELSE [s EXCEPT !.profiles[w] = NewProfile]

MockAddPoints(s, w, pts, type) ==
  LET s1 == EnsureProfile(s, w)
      newTotal == s1.profiles[w].totalPoints + pts
  IN [s1 EXCEPT !.profiles[w].totalPoints = newTotal,
                !.history = Append(@, HistoryRow(w, type, pts, newTotal))]

MockMaybeGenerateReferralCode(s, w) ==
  LET p == s.profiles[w] IN
  IF p.referralCode # Null THEN s
  ELSE IF AllThree(p)
    THEN [s EXCEPT !.profiles[w].referralCode = NanoId(s.codeSeq + 1),
                   !.codeSeq = @ + 1]
  ELSE s

UpdateReferralStats(s, referrer) ==
  IF ~s.profiles[referrer].exists THEN s
  ELSE
    LET rows == {i \in 1..Len(s.referrals) :
                   s.referrals[i].referrerWallet = referrer}
        Pts[I \in SUBSET rows] ==
          IF I = {} THEN 0
          ELSE LET i == CHOOSE j \in I : TRUE
               IN s.referrals[i].referrerPoints + Pts[I \ {i}]
    IN [s EXCEPT !.profiles[referrer].referralCount = Cardinality(rows),
                 !.profiles[referrer].referralPointsEarned = Pts[rows]]

\* the claim both maybeClaimReferralBonus and claimReferralBonus perform
MockClaim(s, w, i) ==
  LET referrer == s.referrals[i].referrerWallet
      s1 == [s EXCEPT !.referrals[i].referrerClaimed = TRUE,
                      !.referrals[i].referrerPoints = 50,
                      !.referrals[i].referredPoints = 50]
      s2 == MockAddPoints(s1, referrer, 50, "referral_bonus")
      s3 == MockAddPoints(s2, w, 50, "referral_bonus")
  IN UpdateReferralStats(s3, referrer)

MockMaybeClaimReferralBonus(s, w) ==
  LET s1 == EnsureProfile(s, w)
      i == ReferralOf(s1, w)
  IN IF s1.profiles[w].referredBy = Null THEN s1
     ELSE IF i = 0 \/ s1.referrals[i].referrerClaimed THEN s1
     ELSE MockClaim(s1, w, i)

MockClaimConnectBonus(s, w) ==
  LET s0 == EnsureProfile(s, w) IN
  IF s0.profiles[w].connectBonusClaimed
    THEN Res(s0, FALSE, "Connect bonus already claimed")
  ELSE
    LET s1 == [s0 EXCEPT !.profiles[w].connectBonusClaimed = TRUE]
        s2 == MockAddPoints(s1, w, 300, "connect_bonus")
    IN Res(MockMaybeClaimReferralBonus(s2, w), TRUE, "Earned")

MockConnectXAccount(s, w, xUsername) ==
  LET s0 == EnsureProfile(s, w) IN
  IF s0.profiles[w].xConnected
    THEN Res(s0, FALSE, "X account already connected")
  ELSE
    LET s1 == [s0 EXCEPT !.profiles[w].xConnected = TRUE,
                         !.profiles[w].xUsername = xUsername,
                         !.profiles[w].xConnectedAt = Now]
        s2 == MockAddPoints(s1, w, 100, "x_connect")
        s3 == MockMaybeGenerateReferralCode(s2, w)
    IN Res(MockMaybeClaimReferralBonus(s3, w), TRUE, "Earned")

MockDisconnectXAccount(s, w) ==
  LET s0 == EnsureProfile(s, w) IN
  IF ~s0.profiles[w].xConnected
    THEN Res(s0, FALSE, "X account not connected")
  ELSE
    LET s1 == [s0 EXCEPT !.profiles[w].xConnected = FALSE,
                         !.profiles[w].xUsername = Null,
                         !.profiles[w].xConnectedAt = Null]
    IN Res(MockAddPoints(s1, w, -100, "x_disconnect"), TRUE,
           "X account disconnected")

MockConnectDiscordAccount(s, w, discordUsername) ==
  LET s0 == EnsureProfile(s, w) IN
  IF s0.profiles[w].discordConnected
    THEN Res(s0, FALSE, "Discord account already connected")
  ELSE
    LET s1 == [s0 EXCEPT !.profiles[w].discordConnected = TRUE,
                         !.profiles[w].discordUsername = discordUsername,
                         !.profiles[w].discordConnectedAt = Now]
        s2 == MockAddPoints(s1, w, 50, "discord_connect")
        s3 == MockMaybeGenerateReferralCode(s2, w)
    IN Res(MockMaybeClaimReferralBonus(s3, w), TRUE, "Earned")

MockDisconnectDiscordAccount(s, w) ==
  LET s0 == EnsureProfile(s, w) IN
  IF ~s0.profiles[w].discordConnected
    THEN Res(s0, FALSE, "Discord account not connected")
  ELSE
    LET s1 == [s0 EXCEPT !.profiles[w].discordConnected = FALSE,
                         !.profiles[w].discordUsername = Null,
                         !.profiles[w].discordId = Null,
                         !.profiles[w].discordConnectedAt = Null,
                         !.profiles[w].discordVerified = FALSE,
                         !.profiles[w].discordVerifiedAt = Null]
    IN Res(MockAddPoints(s1, w, -50, "discord_disconnect"), TRUE,
           "Discord account disconnected")

MockVerifyDiscordServer(s, w) ==
  LET s0 == EnsureProfile(s, w) IN
  IF ~s0.profiles[w].discordConnected
    THEN Res(s0, FALSE, "Discord account must be connected first")
  ELSE IF s0.profiles[w].discordVerified
    THEN Res(s0, FALSE, "Discord server already verified")
  ELSE
    LET s1 == [s0 EXCEPT !.profiles[w].discordVerified = TRUE,
                         !.profiles[w].discordVerifiedAt = Now]
        s2 == MockAddPoints(s1, w, 50, "discord_verify")
        s3 == MockMaybeGenerateReferralCode(s2, w)
    IN Res(MockMaybeClaimReferralBonus(s3, w), TRUE, "Earned")

\* JSON.stringify({ tweetUrl }) when a URL is given, else null
MockMetadata(tweetUrl) == IF tweetUrl = Null THEN Null ELSE "json"

MockCompleteDailyPost(s, w, tweetUrl) ==
  LET s0 == EnsureProfile(s, w) IN
  IF HasCompletedTask(s0, w, Today)
    THEN Res(s0, FALSE, "Daily post already completed")
  ELSE
    LET s1 == CompleteTask(s0, w, 100, MockMetadata(tweetUrl))
        s2 == MockAddPoints(s1, w, 100, "daily_post")
    IN Res(MockMaybeClaimReferralBonus(s2, w), TRUE, "Earned")

MockRevokeTweetPoints(s, id) ==
  IF id \notin 1..Len(s.completions)
    THEN Res(s, FALSE, "Completion not found")
  ELSE IF s.completions[id].status = "revoked"
    THEN Res(s, FALSE, "Already revoked")
  ELSE
    LET task == s.completions[id]
        s1 == [s EXCEPT !.completions[id].status = "revoked",
                        !.completions[id].revokedAt = Now]
    IN Res(MockAddPoints(s1, task.walletAddress, -task.pointsAwarded,
                         "tweet_revoked"), TRUE, "Tweet points revoked")

MockApplyReferralCode(s, w, referralCode) ==
  LET s0 == EnsureProfile(s, w)
      found == ReferrerByCode(s0, ToUpperCase(referralCode))
  IN
  IF s0.profiles[w].referredBy # Null
    THEN Res(s0, FALSE, "Referral code already applied")
  ELSE IF found = {} THEN Res(s0, FALSE, "Referral code not found")
  ELSE
    LET referrer == CHOOSE r \in found : TRUE IN
    IF referrer = w THEN Res(s0, FALSE, "You cannot refer yourself")
    ELSE
      \* the in-memory row has no referralCode and no referredClaimed field;
      \* referredBy holds the referrer's address
      LET s1 == [s0 EXCEPT !.profiles[w].referredBy = referrer,
                           !.referrals = Append(@, ReferralRow(referrer, w, Null))]
      IN Res(UpdateReferralStats(s1, referrer), TRUE, "Referral code applied!")

MockClaimReferralBonus(s, w) ==
  LET i == ReferralOf(s, w) IN
  IF i = 0 THEN Res(s, FALSE, "Referral not found")
  ELSE IF s.referrals[i].referrerClaimed
    THEN Res(s, FALSE, "Referral bonus already claimed")
  ELSE Res(MockClaim(s, w, i), TRUE, "Referral bonus claimed!")

MockAdjustUserPoints(s, w, pointsChange) ==
  Res(MockAddPoints(s, w, pointsChange, "admin_adjustment"), TRUE,
      "Points adjusted")

\* the in-memory sweeps check nothing
MockCheckAndRevokeDeletedTweets(s) == Res(s, TRUE, "sweep")

MockCronCheckAllTweets(s) == Res(s, TRUE, "sweep")


(***************************************************************************)
(* The run-to-completion specification: one action per operation, on the   *)
(* implementation chosen in Init.                                          *)
(***************************************************************************)
\* a request that has not been made: the function it runs (op), where it
\* stands (pc, phase), its arguments (w, pts, type, tweetUrl, referred, id),
\* its locals (newTotal, code, referrer, profile, the completions a sweep
\* has still to check and its counters) and what it returned (ret)
IdleProc ==
  [op |-> "none", pc |-> "idle", w |-> Null, pts |-> 0, type |-> Null,
   newTotal |-> 0, code |-> Null, referrer |-> Null, referred |-> Null,
   tweetUrl |-> Null, profile |-> NoProfile, phase |-> "none",
   todo |-> {}, id |-> 0, counts |-> NoCounts, referralCount |-> 0,
   tier |-> Null, valid |-> FALSE, limit |-> 0, rows |-> <<>>, total |-> 0,
   state |-> Null, username |-> Null, ret |-> "pending"]

\* the wallet that, in a seeded run, starts out eligible to refer
Referrer == "w1"

\* the store after Referrer has fetched its profile, connected X, connected
\* Discord and verified its membership, in that order, on implementation i
ReferrerReady(i) ==
  IF i = "db"
    THEN LET s0 == DbGetOrCreateWalletProfile(EmptyStore, Referrer)
             s1 == DbConnectXAccount(s0, Referrer, "alice", 100).s
             s2 == DbConnectDiscordAccount(s1, Referrer, "bob", "d1").s
         IN DbVerifyDiscordServer(s2, Referrer, 200).s
    ELSE LET s1 == MockConnectXAccount(EmptyStore, Referrer, "alice").s
             s2 == MockConnectDiscordAccount(s1, Referrer, "bob").s
         IN MockVerifyDiscordServer(s2, Referrer).s

\* a run starts from the empty store or, to reach the referral operations
\* within the bound, from the store ReferrerReady has built
Seeds(i) == {EmptyStore, ReferrerReady(i)}

InitStore(s) ==
  /\ profiles = s.profiles
  /\ history = s.history
  /\ completions = s.completions
  /\ referrals = s.referrals
  /\ codeSeq = s.codeSeq

Init ==
  /\ impl \in {"db", "mock"}
  /\ \E s \in Seeds(impl) : InitStore(s)
  /\ xBonus = 100
  /\ mock = NoStore
  /\ pendingOAuthStates = NoPending
  /\ pendingDiscordStates = NoPending
  /\ collation = OneSpelling
  /\ procs = [p \in Procs |-> IdleProc]

Commit(s) ==
  /\ profiles' = s.profiles
  /\ history' = s.history
  /\ completions' = s.completions
  /\ referrals' = s.referrals
  /\ codeSeq' = s.codeSeq

\* the PointsHistory a seeded run starts with (the same on both
\* implementations)
SeedHistory == ReferrerReady("db").history

\* the rows of h that are not the rows a seeded run starts with
RowsAdded(h) ==
  IF Len(h) >= Len(SeedHistory) /\ SubSeq(h, 1, Len(SeedHistory)) = SeedHistory
    THEN Len(h) - Len(SeedHistory)
    ELSE Len(h)

\* the bound on PointsHistory admits the store the operation leaves
Fits(r) == RowsAdded(r.s.history) <= MaxHistory

\* an operation returned r: the store it leaves is committed
Return(r) ==
  /\ Commit(r.s)
  /\ UNCHANGED <<xBonus, impl, procs, collation, mock, oauth_vars>>

\* the codes a caller may type: every issued code in either case, or junk
CodeInputs ==
  {NanoId(n) : n \in 1..codeSeq} \cup {LowerCode(n) : n \in 1..codeSeq}
    \cup {"nope"}

GetOrCreateWalletProfile(w) ==
  LET r == Res(IF impl = "db" THEN DbGetOrCreateWalletProfile(Store, w)
                            ELSE EnsureProfile(Store, w), TRUE, "profile")
  IN /\ Fits(r)
     /\ Return(r)

ClaimConnectBonus(w) ==
  LET r == IF impl = "db" THEN DbClaimConnectBonus(Store, w)
                        ELSE MockClaimConnectBonus(Store, w)
  IN /\ Fits(r)
     /\ Return(r)

ConnectXAccount(w) ==
  \E n \in XNames :
    LET r == IF impl = "db" THEN DbConnectXAccount(Store, w, n, xBonus)
                          ELSE MockConnectXAccount(Store, w, n)
    IN /\ Fits(r)
       /\ Return(r)

DisconnectXAccount(w) ==
  LET r == IF impl = "db" THEN DbDisconnectXAccount(Store, w, xBonus)
                        ELSE MockDisconnectXAccount(Store, w)
  IN /\ Fits(r)
     /\ Return(r)

ConnectDiscordAccount(w) ==
  \E n \in DiscordNames, d \in DiscordIds :
    LET r == IF impl = "db" THEN DbConnectDiscordAccount(Store, w, n, d)
                          ELSE MockConnectDiscordAccount(Store, w, n)
    IN /\ Fits(r)
       /\ Return(r)

DisconnectDiscordAccount(w) ==
  LET r == IF impl = "db" THEN DbDisconnectDiscordAccount(Store, w)
                        ELSE MockDisconnectDiscordAccount(Store, w)
  IN /\ Fits(r)
     /\ Return(r)

VerifyDiscordServer(w) ==
  \E status \in MemberStatuses :
    LET r == IF impl = "db" THEN DbVerifyDiscordServer(Store, w, status)
                          ELSE MockVerifyDiscordServer(Store, w)
    IN /\ Fits(r)
       /\ Return(r)

CompleteDailyPost(w) ==
  \E url \in TweetUrls :
    LET r == IF impl = "db" THEN DbCompleteDailyPost(Store, w, url)
                          ELSE MockCompleteDailyPost(Store, w, url)
    IN /\ Fits(r)
       /\ Return(r)

RevokeTweetPoints ==
  \E id \in 1..(Len(completions) + 1) :
    LET r == IF impl = "db" THEN DbRevokeTweetPoints(Store, id)
                          ELSE MockRevokeTweetPoints(Store, id)
    IN /\ Fits(r)
       /\ Return(r)

GetOrCreateReferralCode(w) ==
  /\ impl = "db"
  /\ LET r == DbGetOrCreateReferralCode(Store, w)
     IN /\ Fits(r)
        /\ Return(r)

ApplyReferralCode(w) ==
  \E c \in CodeInputs :
    LET r == IF impl = "db" THEN DbApplyReferralCode(Store, w, c)
                          ELSE MockApplyReferralCode(Store, w, c)
    IN /\ Fits(r)
       /\ Return(r)

ClaimReferralBonus(w) ==
  LET r == IF impl = "db" THEN DbClaimReferralBonus(Store, w)
                        ELSE MockClaimReferralBonus(Store, w)
  IN /\ Fits(r)
     /\ Return(r)

AdjustUserPoints(w) ==
  \E d \in AdjustDeltas :
    LET r == IF impl = "db" THEN DbAdjustUserPoints(Store, w, d)
                          ELSE MockAdjustUserPoints(Store, w, d)
    IN /\ Fits(r)
       /\ Return(r)

CheckUserDiscordMembership(w) ==
  /\ impl = "db"
  /\ \E status \in MemberStatuses :
       LET r == DbCheckUserDiscordMembership(Store, w, status)
       IN /\ Fits(r)
          /\ Return(r)

CheckDiscordServerMemberships ==
  /\ impl = "db"
  /\ \E statusOf \in [VerifiedUsers(Store) -> MemberStatuses] :
       LET r == DbCheckDiscordServerMemberships(Store, statusOf)
       IN /\ Fits(r)
          /\ Return(r)

CheckAndRevokeDeletedTweets(w) ==
  \E statusOf \in [ActiveTweetCompletions(Store, {w}) -> TweetStatuses] :
    LET r == IF impl = "db" THEN DbCheckAndRevokeDeletedTweets(Store, w, statusOf)
                          ELSE MockCheckAndRevokeDeletedTweets(Store)
    IN /\ Fits(r)
       /\ Return(r)

CronCheckAllTweets ==
  \E statusOf \in [ActiveTweetCompletions(Store, Addresses) -> TweetStatuses] :
    LET r == IF impl = "db" THEN DbCronCheckAllTweets(Store, statusOf)
                          ELSE MockCronCheckAllTweets(Store)
    IN /\ Fits(r)
       /\ Return(r)

Operation ==
  \/ \E w \in Wallets : GetOrCreateWalletProfile(w)
  \/ \E w \in Wallets : ClaimConnectBonus(w)
  \/ \E w \in Wallets : ConnectXAccount(w)
  \/ \E w \in Wallets : DisconnectXAccount(w)
  \/ \E w \in Wallets : ConnectDiscordAccount(w)
  \/ \E w \in Wallets : DisconnectDiscordAccount(w)
  \/ \E w \in Wallets : VerifyDiscordServer(w)
  \/ \E w \in Wallets : CompleteDailyPost(w)
  \/ RevokeTweetPoints
  \/ \E w \in Wallets : GetOrCreateReferralCode(w)
  \/ \E w \in Wallets : ApplyReferralCode(w)
  \/ \E w \in Wallets : ClaimReferralBonus(w)
  \/ \E w \in Wallets : AdjustUserPoints(w)
  \/ \E w \in Wallets : CheckUserDiscordMembership(w)
  \/ CheckDiscordServerMemberships
  \/ \E w \in Wallets : CheckAndRevokeDeletedTweets(w)
  \/ CronCheckAllTweets

Next == Operation

Spec == Init /\ [][Next]_vars

(***************************************************************************)
(* SpecRefund: the database-backed operations, with the X-connect bonus    *)
(* literal of connectXAccount (and the fallback of disconnectXAccount)     *)
(* changing from one deployment of the server to the next.                 *)
(***************************************************************************)
XBonuses == {100, 120}

\* a new build is deployed in which the bonus literal has another value
Redeploy ==
  /\ xBonus' \in XBonuses \ {xBonus}
  /\ UNCHANGED <<store_vars, impl, procs, collation, mock, oauth_vars>>

InitRefund ==
  /\ impl = "db"
  /\ \E s \in Seeds("db") : InitStore(s)
  /\ xBonus = 100
  /\ mock = NoStore
  /\ pendingOAuthStates = NoPending
  /\ pendingDiscordStates = NoPending
  /\ collation = OneSpelling
  /\ procs = [p \in Procs |-> IdleProc]

NextRefund == Operation \/ Redeploy

SpecRefund == InitRefund /\ [][NextRefund]_vars

(***************************************************************************)
(* The database-backed functions one awaited store call at a time.  Each   *)
(* request is a process; between two of its steps any other request may    *)
(* take steps.  `await getDb()` resolves to the cached handle and touches  *)
(* no row, so it is taken together with the store call that follows it.    *)
(***************************************************************************)
\* the (points, transactionType) pairs addPoints is called with directly
AddPointsCalls ==
  { [pts |-> 100, type |-> "daily_post"],
    [pts |-> -30, type |-> "admin_adjustment"] }

\* process p moves to the record rec; the store is left alone
Goto(p, rec) ==
  /\ procs' = [procs EXCEPT ![p] = rec]
  /\ UNCHANGED <<store_vars, xBonus, impl, collation, mock, oauth_vars>>

\* process p moves to rec and the store becomes s
GotoWith(p, rec, s) ==
  /\ procs' = [procs EXCEPT ![p] = rec]
  /\ Commit(s)
  /\ UNCHANGED <<xBonus, impl, collation, mock, oauth_vars>>

\* a request calls addPoints(w, pts, type)
AddPointsCall(p) ==
  /\ procs[p].pc = "idle"
  /\ \E w \in Wallets, c \in AddPointsCalls :
       Goto(p, [procs[p] EXCEPT !.op = "addPoints", !.pc = "ap_read",
                                !.w = w, !.pts = c.pts, !.type = c.type])

\* addPoints: getDb() or getWalletProfile's getDb() resolves to null
ApUnavailable(p) ==
  /\ procs[p].pc = "ap_read"
  /\ procs[p].op = "addPoints"
  /\ Goto(p, [procs[p] EXCEPT !.pc = "done", !.ret = "null"])

\* where the caller of addPoints goes on once addPoints has returned ret:
\* a direct call is over; completeDailyPost looks for the referral;
\* claimReferralBonus pays the referred wallet after the referrer and then
\* updates the referrer's statistics; claimConnectBonus returns success;
\* revokeTweetPoints returns success, to the admin or to the sweep that
\* called it, which counts the revocation and takes its next completion;
\* checkDiscordServerMemberships counts the revocation and takes its next
\* user;
\* the connect functions go on to maybeGenerateReferralCode
AfterAddPoints(proc, ret) ==
  IF proc.op = "addPoints" THEN [proc EXCEPT !.pc = "done", !.ret = ret]
  ELSE IF proc.phase = "task" THEN [proc EXCEPT !.pc = "dp_referral"]
  ELSE IF proc.phase = "referrer"
    THEN [proc EXCEPT !.pc = "ap_read", !.w = proc.referred, !.pts = 50,
                      !.type = "referral_bonus", !.phase = "referred"]
  ELSE IF proc.phase = "referred" THEN [proc EXCEPT !.pc = "cr_stats_read"]
  ELSE IF proc.phase = "return" THEN [proc EXCEPT !.pc = "done", !.ret = "ok"]
  ELSE IF proc.phase = "member"
    THEN [proc EXCEPT !.pc = "ms_item", !.todo = @ \ {proc.w},
                      !.counts.revoked = @ + 1]
  ELSE IF proc.phase = "revoked"
    THEN IF proc.op = "revokeTweetPoints"
           THEN [proc EXCEPT !.pc = "done", !.ret = "ok"]
           ELSE [proc EXCEPT !.pc = "sw_item", !.todo = @ \ {proc.id},
                             !.counts.revoked = @ + 1]
  ELSE [proc EXCEPT !.pc = "mg_read", !.ret = ret]

\* addPoints: the profile is read and newTotal computed from it
ApRead(p) ==
  /\ procs[p].pc = "ap_read"
  /\ LET profile == profiles[procs[p].w] IN
     IF ~profile.exists
       THEN Goto(p, AfterAddPoints(procs[p], "null"))
       ELSE Goto(p, [procs[p] EXCEPT
                       !.pc = "ap_update",
                       !.newTotal = profile.totalPoints + procs[p].pts])

\* addPoints: update wallet_profiles set totalPoints = newTotal
ApUpdate(p) ==
  /\ procs[p].pc = "ap_update"
  /\ GotoWith(p, [procs[p] EXCEPT !.pc = "ap_insert"],
              [Store EXCEPT !.profiles[procs[p].w].totalPoints =
                              procs[p].newTotal])

\* addPoints: insert into points_history, then return newTotal
ApInsert(p) ==
  /\ procs[p].pc = "ap_insert"
  /\ GotoWith(p, AfterAddPoints(procs[p], "ok"),
              [Store EXCEPT !.history =
                 Append(@, HistoryRow(procs[p].w, procs[p].type, procs[p].pts,
                                      procs[p].newTotal))])

\* addPoints: the awaited store call rejects (the connection is lost); the
\* function has no try/catch, so the rejection reaches its caller
StoreRejects(p) ==
  /\ procs[p].pc \in {"ap_read", "ap_update", "ap_insert"}
  /\ procs[p].op = "addPoints"
  /\ Goto(p, [procs[p] EXCEPT !.pc = "failed", !.ret = "throws"])

\* the store the concurrent addPoints calls start from: both wallets have
\* fetched their profile and w1 has claimed its connect bonus
PointsSeed ==
  LET s1 == DbGetOrCreateWalletProfile(EmptyStore, "w1")
      s2 == DbGetOrCreateWalletProfile(s1, "w2")
  IN DbClaimConnectBonus(s2, "w1").s

InitPoints ==
  /\ impl = "db"
  /\ InitStore(PointsSeed)
  /\ xBonus = 100
  /\ mock = NoStore
  /\ pendingOAuthStates = NoPending
  /\ pendingDiscordStates = NoPending
  /\ collation = OneSpelling
  /\ procs = [p \in Procs |-> IdleProc]

NextPoints ==
  \E p \in Procs :
    \/ AddPointsCall(p)
    \/ ApUnavailable(p)
    \/ ApRead(p)
    \/ ApUpdate(p)
    \/ ApInsert(p)
    \/ StoreRejects(p)

SpecPoints == InitPoints /\ [][NextPoints]_vars

(***************************************************************************)
(* SpecCode: connectXAccount, connectDiscordAccount, verifyDiscordServer   *)
(* and getOrCreateReferralCode as concurrent requests, one step per        *)
(* awaited call.  The store stays available.                               *)
(***************************************************************************)
CodeOps ==
  {"connectXAccount", "connectDiscordAccount", "verifyDiscordServer",
   "getOrCreateReferralCode"}

\* a request calls one of the four functions for wallet w
CodeCall(p) ==
  /\ procs[p].pc = "idle"
  /\ \E w \in Wallets, op \in CodeOps :
       Goto(p, [procs[p] EXCEPT !.op = op, !.pc = "read", !.w = w])

\* the function returns without having passed its checks
Fail(p, msg) == Goto(p, [procs[p] EXCEPT !.pc = "done", !.ret = msg])

\* connectXAccount: the profile is read and checked
CxRead(p) ==
  /\ procs[p].pc = "read"
  /\ procs[p].op = "connectXAccount"
  /\ LET profile == profiles[procs[p].w] IN
     IF ~profile.exists THEN Fail(p, "Profile not found")
     ELSE IF profile.xConnected THEN Fail(p, "X account already connected")
     ELSE Goto(p, [procs[p] EXCEPT !.pc = "update"])

\* connectXAccount: the X fields are written, then addPoints is called
CxUpdate(p) ==
  /\ procs[p].pc = "update"
  /\ procs[p].op = "connectXAccount"
  /\ \E n \in XNames :
       GotoWith(p, [procs[p] EXCEPT !.pc = "ap_read", !.pts = xBonus,
                                    !.type = "x_connect"],
                [Store EXCEPT !.profiles[procs[p].w].xConnected = TRUE,
                              !.profiles[procs[p].w].xUsername = n,
                              !.profiles[procs[p].w].xConnectedAt = Now])

\* connectDiscordAccount: the profile is read and checked
CdRead(p) ==
  /\ procs[p].pc = "read"
  /\ procs[p].op = "connectDiscordAccount"
  /\ LET profile == profiles[procs[p].w] IN
     IF ~profile.exists THEN Fail(p, "Profile not found")
     ELSE IF profile.discordConnected
       THEN Fail(p, "Discord account already connected")
     ELSE Goto(p, [procs[p] EXCEPT !.pc = "update"])

\* connectDiscordAccount: the Discord fields are written, then addPoints
CdUpdate(p) ==
  /\ procs[p].pc = "update"
  /\ procs[p].op = "connectDiscordAccount"
  /\ \E n \in DiscordNames, d \in DiscordIds :
       GotoWith(p, [procs[p] EXCEPT !.pc = "ap_read", !.pts = 50,
                                    !.type = "discord_connect"],
                [Store EXCEPT !.profiles[procs[p].w].discordConnected = TRUE,
                              !.profiles[procs[p].w].discordUsername = n,
                              !.profiles[procs[p].w].discordId = d,
                              !.profiles[procs[p].w].discordConnectedAt = Now])

\* verifyDiscordServer: the profile is read and checked
VdRead(p) ==
  /\ procs[p].pc = "read"
  /\ procs[p].op = "verifyDiscordServer"
  /\ LET profile == profiles[procs[p].w] IN
     IF ~profile.exists THEN Fail(p, "Profile not found")
     ELSE IF ~profile.discordConnected
       THEN Fail(p, "Discord account must be connected first")
     ELSE IF profile.discordVerified
       THEN Fail(p, "Discord server already verified")
     ELSE IF profile.discordId = Null THEN Fail(p, "Discord ID not found")
     ELSE Goto(p, [procs[p] EXCEPT !.pc = "fetch"])

\* verifyDiscordServer: the guild-member request answers (or is rejected)
VdFetch(p) ==
  /\ procs[p].pc = "fetch"
  /\ \E status \in MemberStatuses :
       IF status = 404
         THEN Fail(p, "You are not a member of the PerpX Discord server")
       ELSE IF status # 200
         THEN Fail(p, "Failed to verify Discord membership")
       ELSE Goto(p, [procs[p] EXCEPT !.pc = "update"])

\* verifyDiscordServer: the verified flag is written, then addPoints
VdUpdate(p) ==
  /\ procs[p].pc = "update"
  /\ procs[p].op = "verifyDiscordServer"
  /\ GotoWith(p, [procs[p] EXCEPT !.pc = "ap_read", !.pts = 50,
                                  !.type = "discord_verify"],
              [Store EXCEPT !.profiles[procs[p].w].discordVerified = TRUE,
                            !.profiles[procs[p].w].discordVerifiedAt = Now])

\* maybeGenerateReferralCode: the profile is read; when it has the three
\* flags and no code, a token is drawn
MgRead(p) ==
  /\ procs[p].pc = "mg_read"
  /\ LET profile == profiles[procs[p].w] IN
     IF profile.exists /\ AllThree(profile) /\ profile.referralCode = Null
       THEN GotoWith(p, [procs[p] EXCEPT !.pc = "mg_write",
                                         !.code = NanoId(codeSeq + 1)],
                     [Store EXCEPT !.codeSeq = @ + 1])
       ELSE Goto(p, [procs[p] EXCEPT !.pc = "mc_read"])

\* maybeGenerateReferralCode: update wallet_profiles set referralCode
MgWrite(p) ==
  /\ procs[p].pc = "mg_write"
  /\ GotoWith(p, [procs[p] EXCEPT !.pc = "mc_read"],
              [Store EXCEPT !.profiles[procs[p].w].referralCode =
                              procs[p].code])

\* maybeClaimReferralBonus, then the success return.  No wallet of this
\* specification has a referredBy, so the function returns at its read.
McRead(p) ==
  /\ procs[p].pc = "mc_read"
  /\ GotoWith(p, [procs[p] EXCEPT !.pc = "done", !.ret = "Earned"],
              DbMaybeClaimReferralBonus(Store, procs[p].w))

\* getOrCreateReferralCode: the profile is read; an existing code is
\* returned, else a token is drawn
GcRead(p) ==
  /\ procs[p].pc = "read"
  /\ procs[p].op = "getOrCreateReferralCode"
  /\ LET profile == profiles[procs[p].w] IN
     IF ~profile.exists \/ ~AllThree(profile) THEN Fail(p, "null")
     ELSE IF profile.referralCode # Null THEN Fail(p, profile.referralCode)
     ELSE GotoWith(p, [procs[p] EXCEPT !.pc = "gc_write",
                                       !.code = NanoId(codeSeq + 1)],
                   [Store EXCEPT !.codeSeq = @ + 1])

\* getOrCreateReferralCode: the code is written and returned
GcWrite(p) ==
  /\ procs[p].pc = "gc_write"
  /\ GotoWith(p, [procs[p] EXCEPT !.pc = "done", !.ret = procs[p].code],
              [Store EXCEPT !.profiles[procs[p].w].referralCode =
                              procs[p].code])

\* the stores the concurrent requests start from: both wallets have fetched
\* their profile, w1 has connected Discord and, in the second, X too
DiscordConnected ==
  LET s1 == DbGetOrCreateWalletProfile(EmptyStore, "w1")
      s2 == DbGetOrCreateWalletProfile(s1, "w2")
  IN DbConnectDiscordAccount(s2, "w1", "bob", "d1").s

CodeSeeds ==
  {DiscordConnected, DbConnectXAccount(DiscordConnected, "w1", "alice", 100).s}

InitCode ==
  /\ impl = "db"
  /\ \E s \in CodeSeeds : InitStore(s)
  /\ xBonus = 100
  /\ mock = NoStore
  /\ pendingOAuthStates = NoPending
  /\ pendingDiscordStates = NoPending
  /\ collation = OneSpelling
  /\ procs = [p \in Procs |-> IdleProc]

NextCode ==
  \E p \in Procs :
    \/ CodeCall(p)
    \/ CxRead(p) \/ CxUpdate(p)
    \/ CdRead(p) \/ CdUpdate(p)
    \/ VdRead(p) \/ VdFetch(p) \/ VdUpdate(p)
    \/ ApRead(p) \/ ApUpdate(p) \/ ApInsert(p)
    \/ MgRead(p) \/ MgWrite(p) \/ McRead(p)
    \/ GcRead(p) \/ GcWrite(p)

SpecCode == InitCode /\ [][NextCode]_vars

(***************************************************************************)
(* Properties of the run-to-completion specifications.                     *)
(***************************************************************************)

\* C1: ledger identity.  After any sequence of operations, each run to
\* completion, every wallet's totalPoints equals the sum of pointsChange
\* over that wallet's PointsHistory rows, on either implementation.
LedgerIdentity ==
  \A w \in Wallets : profiles[w].totalPoints = HistorySum(history, w)

\* a wallet that has been granted and deducted points by different
\* operations and still holds a balance
LedgerIdentityWitness ==
  \E w \in Wallets :
    /\ profiles[w].totalPoints > 0
    /\ \E i, j \in 1..Len(history) :
         /\ history[i].walletAddress = w /\ history[i].pointsChange > 0
         /\ history[j].walletAddress = w /\ history[j].pointsChange < 0
         /\ history[i].transactionType = "connect_bonus"
         /\ history[j].transactionType = "admin_adjustment"

\* the rows a step appends to PointsHistory
NewRows == (Len(history) + 1)..Len(history')

\* one step leaves the old rows as they were; every row it adds is the row
\* addPoints writes: the balance it carries is the wallet's total before the
\* step plus the changes of the rows added for that wallet so far, and the
\* wallet's total after the step is the balance of its last new row
AppendOnlyStep ==
  /\ Len(history') >= Len(history)
  /\ SubSeq(history', 1, Len(history)) = history
  /\ \A i \in NewRows :
       LET w == history'[i].walletAddress
           earlier == {j \in NewRows : j < i /\ history'[j].walletAddress = w}
       IN history'[i].balanceAfter =
            profiles[w].totalPoints + SumOver(history', earlier)
              + history'[i].pointsChange
  /\ \A w \in Wallets :
       LET mine == {i \in NewRows : history'[i].walletAddress = w}
       IN IF mine = {}
            THEN profiles'[w].totalPoints = profiles[w].totalPoints
            ELSE profiles'[w].totalPoints = history'[Max(mine)].balanceAfter

\* C5: PointsHistory is append-only.  No step of any operation modifies or
\* removes an existing row, and every row a step adds is an addPoints row
\* that carries the wallet's balance after the change.
HistoryAppendOnly == [][AppendOnlyStep]_vars

\* one operation has appended two rows for the same wallet (a Discord
\* disconnect of a verified wallet), the second on top of the first
HistoryAppendOnlyWitness ==
  \E i \in 1..Len(history) :
    /\ i > 1
    /\ history[i].transactionType = "discord_verify_revoked"
    /\ history[i - 1].transactionType = "discord_disconnect"
    /\ history[i].walletAddress = history[i - 1].walletAddress
    /\ history[i].balanceAfter =
         history[i - 1].balanceAfter + history[i].pointsChange

\* the X-connect grant an x_disconnect row at index i has to give back: the
\* wallet's nearest earlier x_connect row
GrantBefore(i) ==
  {j \in RowsOf(history, history[i].walletAddress, "x_connect") : j < i}

\* C6: refund exactness.  A successful connectXAccount followed by a
\* successful disconnectXAccount nets 0: every x_disconnect row deducts what
\* the wallet's most recent x_connect row granted, whatever the bonus literal
\* is when the disconnect runs, so the X rows of a disconnected wallet sum to
\* 0 and those of a connected wallet to its one outstanding grant.
RefundExact ==
  /\ \A i \in 1..Len(history) :
       history[i].transactionType = "x_disconnect" =>
         /\ GrantBefore(i) # {}
         /\ history[i].pointsChange = -history[Max(GrantBefore(i))].pointsChange
  /\ \A w \in Wallets :
       LET grants == RowsOf(history, w, "x_connect")
           net == TypedSum(history, w, {"x_connect", "x_disconnect"})
       IN IF profiles[w].xConnected
            THEN grants # {} /\ net = history[Max(grants)].pointsChange
            ELSE net = 0

\* a wallet was granted 120, the literal went back to 100, and the
\* disconnect gave back 120
RefundExactWitness ==
  /\ xBonus = 100
  /\ mock = NoStore
  /\ pendingOAuthStates = NoPending
  /\ pendingDiscordStates = NoPending
  /\ collation = OneSpelling
  /\ \E i \in 1..Len(history) :
       /\ history[i].transactionType = "x_disconnect"
       /\ history[i].pointsChange = -120
       /\ ~profiles[history[i].walletAddress].xConnected

\* the Discord fields of a profile are all reset
DiscordCleared(p) ==
  /\ ~p.discordConnected /\ ~p.discordVerified
  /\ p.discordUsername = Null /\ p.discordId = Null
  /\ p.discordConnectedAt = Null /\ p.discordVerifiedAt = Null

\* what a step that disconnects a wallet's Discord account has to do
DisconnectDiscordStep ==
  \A w \in Wallets :
    profiles[w].discordConnected /\ ~profiles'[w].discordConnected =>
      LET total == profiles[w].totalPoints
          connect == HistoryRow(w, "discord_disconnect", -50, total - 50)
          verify == HistoryRow(w, "discord_verify_revoked", -50, total - 100)
      IN /\ DiscordCleared(profiles'[w])
         /\ history' = IF profiles[w].discordVerified
                         THEN history \o <<connect, verify>>
                         ELSE Append(history, connect)
         /\ profiles'[w].totalPoints =
              IF profiles[w].discordVerified THEN total - 100 ELSE total - 50

\* C7: disconnectDiscordAccount on a connected and verified wallet appends
\* two deductions in the one call, the connect grant and then the verify
\* grant (50 each), and resets every Discord field; on a connected but
\* unverified wallet it appends the connect deduction alone.  On both
\* implementations.
DisconnectDiscordDeductsGrants == [][DisconnectDiscordStep]_vars

\* the completions of a wallet that have been revoked
RevokedOf(w) ==
  {i \in 1..Len(completions) : /\ completions[i].walletAddress = w
                               /\ completions[i].status = "revoked"}

\* C8: idempotent revocation.  revokeTweetPoints on an active completion
\* succeeds, marks it revoked with a revokedAt and appends exactly one row of
\* minus the pointsAwarded stored on it; on a revoked completion it fails
\* with 'Already revoked' and changes nothing.  So a wallet never holds more
\* tweet_revoked rows than revoked completions.
RevokeIdempotent ==
  /\ \A w \in Wallets :
       Cardinality(RowsOf(history, w, "tweet_revoked")) = Cardinality(RevokedOf(w))
  /\ \A id \in 1..Len(completions) :
       LET c == completions[id]
           r == IF impl = "db" THEN DbRevokeTweetPoints(Store, id)
                               ELSE MockRevokeTweetPoints(Store, id)
           again == IF impl = "db" THEN DbRevokeTweetPoints(r.s, id)
                                   ELSE MockRevokeTweetPoints(r.s, id)
           balance == profiles[c.walletAddress].totalPoints - c.pointsAwarded
       IN IF c.status = "revoked"
            THEN /\ c.revokedAt # Null
                 /\ ~r.ok /\ r.msg = "Already revoked" /\ r.s = Store
            ELSE /\ r.ok
                 /\ r.s.completions =
                      [completions EXCEPT ![id].status = "revoked",
                                          ![id].revokedAt = Now]
                 /\ r.s.history =
                      Append(history, HistoryRow(c.walletAddress, "tweet_revoked",
                                                 -c.pointsAwarded, balance))
                 /\ r.s.profiles[c.walletAddress].totalPoints = balance
                 /\ ~again.ok /\ again.msg = "Already revoked" /\ again.s = r.s

\* a completion has been revoked and its wallet holds the one deduction
RevokeIdempotentWitness ==
  \E id \in 1..Len(completions) :
    /\ completions[id].status = "revoked"
    /\ completions[id].revokedAt = Now
    /\ \E i \in 1..Len(history) :
         /\ history[i].transactionType = "tweet_revoked"
         /\ history[i].walletAddress = completions[id].walletAddress
         /\ history[i].pointsChange = -completions[id].pointsAwarded

\* a wallet with all three flags holds a code; a wallet with no
\* discord_verify row, which has never been verified, holds none
CodeGated ==
  \A w \in Wallets :
    /\ AllThree(profiles[w]) => profiles[w].referralCode # Null
    /\ RowsOf(history, w, "discord_verify") = {} =>
         profiles[w].referralCode = Null

\* a step that gives a wallet its code leaves it with all three flags
CodeIssuedStep ==
  \A w \in Wallets :
    profiles[w].referralCode = Null /\ profiles'[w].referralCode # Null =>
      AllThree(profiles'[w])

\* C9: referral code gating.  A referralCode goes from null to a value only
\* in a step that leaves the wallet X-connected, Discord-connected and
\* Discord-verified; whenever a connect or verify operation completes with
\* all three flags true the wallet has a code; a wallet that has never been
\* Discord-verified has none.  (Operations run to completion.)
ReferralCodeGating == []CodeGated /\ [][CodeIssuedStep]_vars

\* the second wallet earned its code by its third step, the Discord connect
ReferralCodeGatingWitness ==
  \E w \in Wallets \ {Referrer} :
    /\ profiles[w].referralCode # Null
    /\ AllThree(profiles[w])
    /\ Len(history) > 0
    /\ history[Len(history)].walletAddress = w
    /\ history[Len(history)].transactionType \in {"x_connect", "discord_connect"}

(***************************************************************************)
(* Properties of concurrent addPoints calls (SpecPoints).                  *)
(***************************************************************************)
RECURSIVE DeltaSum(_, _)
\* the sum of the deltas of the calls P made for wallet w
DeltaSum(P, w) ==
  IF P = {} THEN 0
  ELSE LET p == CHOOSE q \in P : TRUE
       IN (IF procs[p].w = w THEN procs[p].pts ELSE 0) + DeltaSum(P \ {p}, w)

\* the calls that returned newTotal
Returned == {p \in Procs : procs[p].pc = "done" /\ procs[p].ret = "ok"}

\* C2: no lost update.  When the addPoints calls that were made have all
\* returned their new total, however their store calls interleaved, every
\* wallet's totalPoints is its initial total plus the deltas of all of them.
NoLostUpdate ==
  (\A p \in Procs : procs[p].pc = "idle" \/ p \in Returned) =>
    \A w \in Wallets :
      profiles[w].totalPoints =
        PointsSeed.profiles[w].totalPoints + DeltaSum(Returned, w)

\* C3: the total update and the history insert of addPoints are one step
\* for observers: in every state a reader can see, a wallet's totalPoints
\* includes exactly the deltas whose PointsHistory rows are present.
TotalAndRowTogether ==
  \A w \in Wallets :
    profiles[w].totalPoints - PointsSeed.profiles[w].totalPoints =
      HistorySum(history, w) - HistorySum(PointsSeed.history, w)

\* the calls that reported failure: null returned, or a rejection
Failed ==
  {p \in Procs : \/ procs[p].pc = "failed"
                 \/ procs[p].pc = "done" /\ procs[p].ret = "null"}

\* C4: no partial mutation.  When the store becomes unavailable during
\* addPoints, the call reports failure and has changed neither the total
\* nor the history (stated with no other call made, so that every change
\* is that call's).
NoPartialMutation ==
  \A p \in Failed :
    (\A q \in Procs \ {p} : procs[q].pc = "idle") =>
      /\ profiles = PointsSeed.profiles
      /\ history = PointsSeed.history

(***************************************************************************)
(* Properties of concurrent connect / verify / code requests (SpecCode).   *)
(***************************************************************************)
\* a wallet that holds a code holds the same code after the step
CodeKept ==
  \A w \in Wallets :
    profiles[w].referralCode # Null =>
      profiles'[w].referralCode = profiles[w].referralCode

\* C10: referral code stability.  Once a wallet's referralCode is non-null
\* no later step changes it or clears it, also when connectXAccount,
\* connectDiscordAccount, verifyDiscordServer and getOrCreateReferralCode
\* for the wallet interleave.
ReferralCodeStable == [][CodeKept]_vars

(***************************************************************************)
(* Properties of the referral operations, run to completion.               *)
(***************************************************************************)
\* applyReferralCode on the implementation of the run
Apply(w, c) ==
  IF impl = "db" THEN DbApplyReferralCode(Store, w, c)
                 ELSE MockApplyReferralCode(Store, w, c)

\* the spellings of a code a caller may type
Spellings(code) == {c \in CodeInputs : ToUpperCase(c) = code}

\* C11: no self-referral.  applyReferralCode(w, c) with c the wallet's own
\* code, in any spelling, fails whatever the wallet's flags are and leaves
\* the referrals and the wallet's referredBy as they were; no state holds a
\* Referral row from a wallet to itself.
NoSelfReferral ==
  /\ \A i \in 1..Len(referrals) :
       referrals[i].referrerWallet # referrals[i].referredWallet
  /\ \A w \in Wallets :
       profiles[w].referralCode # Null =>
         \A c \in Spellings(profiles[w].referralCode) :
           /\ ~Apply(w, c).ok
           /\ Apply(w, c).s = Store

\* a wallet holds a code, has lost one of its flags and has no referrer of
\* its own, and another wallet has used that code
NoSelfReferralWitness ==
  \E w \in Wallets :
    /\ profiles[w].referralCode # Null
    /\ ~AllThree(profiles[w])
    /\ profiles[w].referredBy = Null
    /\ \E i \in 1..Len(referrals) : referrals[i].referrerWallet = w

\* the Referral rows a step has added
NewReferrals ==
  {referrals'[i] : i \in (Len(referrals) + 1)..Len(referrals')}

\* C13: referrer eligibility is evaluated at application time, in both
\* implementations: a step that creates a Referral row or sets a wallet's
\* referredBy does so only when the code's owner is, in the state the
\* request runs in, X-connected, Discord-connected and Discord-verified.
EligibleAtApplication ==
  /\ \A row \in NewReferrals : AllThree(profiles[row.referrerWallet])
  /\ \A w \in Wallets :
       (profiles[w].referredBy = Null /\ profiles'[w].referredBy # Null) =>
          \E row \in NewReferrals :
             /\ row.referredWallet = w
             /\ AllThree(profiles[row.referrerWallet])

ReferrerEligibility == [][EligibleAtApplication]_vars

(***************************************************************************)
(* Properties of the daily post, run to completion.                        *)
(***************************************************************************)
\* the task completions a step has added
NewCompletions ==
  {completions'[i] : i \in (Len(completions) + 1)..Len(completions')}

\* C15: completeDailyPost fails when the wallet is not X-connected, in both
\* implementations: a step records a daily_post completion or a daily_post
\* award only for a wallet that is X-connected in the state the request
\* runs in.
DailyNeedsXStep ==
  /\ \A c \in NewCompletions : profiles[c.walletAddress].xConnected
  /\ \A i \in NewRows :
       history'[i].transactionType = "daily_post" =>
          profiles[history'[i].walletAddress].xConnected

DailyPostNeedsX == [][DailyNeedsXStep]_vars

\* completeDailyPost on the implementation of the run
DailyPost(w, url) ==
  IF impl = "db" THEN DbCompleteDailyPost(Store, w, url)
                 ELSE MockCompleteDailyPost(Store, w, url)

\* the wallet's daily_post completions of today with the given status
CompletionsOf(s, w, status) ==
  {i \in 1..Len(s.completions) :
     /\ s.completions[i].walletAddress = w
     /\ s.completions[i].taskType = "daily_post"
     /\ s.completions[i].completionDate = Today
     /\ s.completions[i].status = status}

\* C17: revoked completions do not block resubmission.  hasCompletedTask is
\* true exactly when an active completion of the wallet exists for the date;
\* a wallet whose completions of today are all revoked (and that may post:
\* it is X-connected where the implementation asks for it) completes the
\* daily post again, which appends one active completion worth 100, adds 100
\* to its total and writes a +100 daily_post row.
RevokedDoesNotBlock ==
  \A w \in Wallets :
    /\ HasCompletedTask(Store, w, Today) <=> CompletionsOf(Store, w, "active") # {}
    /\ ( /\ CompletionsOf(Store, w, "revoked") # {}
         /\ CompletionsOf(Store, w, "active") = {}
         /\ impl = "db" => profiles[w].xConnected )
       => \A url \in TweetUrls :
            LET r == DailyPost(w, url) IN
            /\ r.ok
            /\ Len(r.s.completions) = Len(completions) + 1
            /\ r.s.completions[Len(r.s.completions)].walletAddress = w
            /\ r.s.completions[Len(r.s.completions)].status = "active"
            /\ r.s.completions[Len(r.s.completions)].pointsAwarded = 100
            /\ \E i \in (Len(history) + 1)..Len(r.s.history) :
                 /\ r.s.history[i].walletAddress = w
                 /\ r.s.history[i].transactionType = "daily_post"
                 /\ r.s.history[i].pointsChange = 100
            /\ r.s.profiles[w].totalPoints >= profiles[w].totalPoints + 100

\* a wallet has posted, been revoked and posted again on the same day
RevokedDoesNotBlockWitness ==
  \E w \in Wallets :
    /\ CompletionsOf(Store, w, "revoked") # {}
    /\ CompletionsOf(Store, w, "active") # {}
    /\ \E i \in CompletionsOf(Store, w, "revoked"),
          j \in CompletionsOf(Store, w, "active") : i < j

(***************************************************************************)
(* Properties of the referral bonus, run to completion.                    *)
(***************************************************************************)
\* the results the four qualifying actions can return to wallet w in the
\* current state, over every input
QualifyingResults(w) ==
  IF impl = "db"
    THEN {DbConnectXAccount(Store, w, n, xBonus) : n \in XNames}
         \cup {DbConnectDiscordAccount(Store, w, n, d) :
                 n \in DiscordNames, d \in DiscordIds}
         \cup {DbVerifyDiscordServer(Store, w, status) : status \in MemberStatuses}
         \cup {DbCompleteDailyPost(Store, w, url) : url \in TweetUrls}
    ELSE {MockConnectXAccount(Store, w, n) : n \in XNames}
         \cup {MockConnectDiscordAccount(Store, w, n) : n \in DiscordNames}
         \cup {MockVerifyDiscordServer(Store, w)}
         \cup {MockCompleteDailyPost(Store, w, url) : url \in TweetUrls}

\* the wallet has used a code and its Referral is not yet claimed in store s
Unclaimed(s, w) ==
  /\ s.profiles[w].referredBy # Null
  /\ ReferralOf(s, w) # 0
  /\ ~s.referrals[ReferralOf(s, w)].referrerClaimed

\* rows i.. of history h hold a referral_bonus of 50 for wallet w
BonusRow(h, from, w) ==
  \E i \in from..Len(h) :
    /\ h[i].walletAddress = w
    /\ h[i].transactionType = "referral_bonus"
    /\ h[i].pointsChange = 50

\* C19: auto-claim on the first qualifying action.  For a wallet with
\* referredBy set and an unclaimed Referral, every successful connectXAccount,
\* connectDiscordAccount, verifyDiscordServer or completeDailyPost leaves the
\* Referral claimed and credits 50 to the referrer and 50 to the wallet.
AutoClaimOnQualifying ==
  \A w \in Wallets :
    Unclaimed(Store, w) =>
      \A r \in QualifyingResults(w) :
        r.ok =>
          LET i == ReferralOf(Store, w)
              referrer == referrals[i].referrerWallet
          IN /\ r.s.referrals[i].referrerClaimed
             /\ r.s.referrals[i].referrerPoints = 50
             /\ r.s.referrals[i].referredPoints = 50
             /\ BonusRow(r.s.history, Len(history) + 1, referrer)
             /\ BonusRow(r.s.history, Len(history) + 1, w)
             /\ r.s.profiles[referrer].totalPoints
                  = profiles[referrer].totalPoints + 50
             /\ r.s.profiles[w].totalPoints >= profiles[w].totalPoints + 50

\* a Referral is claimed and the history holds the referred wallet's
\* qualifying award followed by the two bonus rows
AutoClaimOnQualifyingWitness ==
  \E i \in 1..Len(referrals), k \in 1..Len(history) :
    /\ referrals[i].referrerClaimed
    /\ history[k].walletAddress = referrals[i].referredWallet
    /\ history[k].transactionType
         \in {"x_connect", "discord_connect", "discord_verify", "daily_post"}
    /\ history[k].pointsChange > 0
    /\ BonusRow(history, k + 1, referrals[i].referrerWallet)
    /\ BonusRow(history, k + 1, referrals[i].referredWallet)

\* the step holds a successful qualifying action of wallet w: it connected X,
\* connected Discord, got verified or completed a daily post
QualifyingAction(w) ==
  \/ ~profiles[w].xConnected /\ profiles'[w].xConnected
  \/ ~profiles[w].discordConnected /\ profiles'[w].discordConnected
  \/ ~profiles[w].discordVerified /\ profiles'[w].discordVerified
  \/ \E c \in NewCompletions : c.walletAddress = w
  \/ \E i \in NewRows :
       /\ history'[i].walletAddress = w
       /\ history'[i].transactionType
            \in {"x_connect", "discord_connect", "discord_verify", "daily_post"}

\* C20: a Referral becomes claimed only as part of a successful qualifying
\* action of the referred wallet: a step that takes a Referral from unclaimed
\* to claimed holds such an action; claimConnectBonus and a direct
\* claimReferralBonus do not claim.
ClaimedByQualifyingStep ==
  \A i \in 1..Len(referrals) :
    (~referrals[i].referrerClaimed /\ referrals'[i].referrerClaimed)
       => QualifyingAction(referrals[i].referredWallet)

ClaimedOnlyByQualifying == [][ClaimedByQualifyingStep]_vars

(***************************************************************************)
(* The happy path: A = Referrer becomes eligible, B uses A's code, B's     *)
(* first task pays the bonus.                                              *)
(***************************************************************************)
\* A has connected X, connected Discord and verified (total 200, code
\* issued) and has done nothing else
ReferrerIsReady ==
  /\ AllThree(profiles[Referrer])
  /\ profiles[Referrer].totalPoints = 200
  /\ profiles[Referrer].referralCode # Null
  /\ profiles[Referrer].referredBy = Null

\* B has used A's code and has done nothing else: one unclaimed Referral
\* row, no points, no connection
HappyPathReady(B) ==
  /\ ReferrerIsReady
  /\ B # Referrer
  /\ profiles[B].exists
  /\ profiles[B].totalPoints = 0
  /\ ~profiles[B].xConnected
  /\ ~profiles[B].discordConnected
  /\ Len(referrals) = 1
  /\ referrals[1].referrerWallet = Referrer
  /\ Unclaimed(Store, B)

\* the scenario's end in store s: A 250, B 150, the Referral claimed (the
\* in-memory Referral has no referredClaimed field, so only the database
\* row is asked for it)
HappyPathEnd(s, B) ==
  /\ s.profiles[Referrer].totalPoints = 250
  /\ s.profiles[B].totalPoints = 150
  /\ Len(s.referrals) = 1
  /\ s.referrals[1].referrerClaimed
  /\ impl = "db" => s.referrals[1].referredClaimed

ApplyCall(p) ==
  /\ impl = "db"
  /\ procs[p].pc = "idle"
  /\ \E w \in Wallets, c \in CodeInputs :
       Goto(p, [procs[p] EXCEPT !.op = "applyReferralCode", !.pc = "ar_read",
                                !.w = w, !.code = ToUpperCase(c)])

\* applyReferralCode: the caller's profile is read and checked
ArRead(p) ==
  /\ procs[p].pc = "ar_read"
  /\ LET profile == profiles[procs[p].w] IN
     IF ~profile.exists THEN Fail(p, "Profile not found")
     ELSE IF profile.referredBy # Null
       THEN Fail(p, "You have already used a referral code")
     ELSE Goto(p, [procs[p] EXCEPT !.pc = "ar_find"])

\* applyReferralCode: the owner of the code is selected and checked
ArFind(p) ==
  /\ procs[p].pc = "ar_find"
  /\ LET found == ReferrerByCode(Store, procs[p].code) IN
     IF found = {} THEN Fail(p, "Invalid referral code")
     ELSE
       LET referrer == CHOOSE r \in found : TRUE IN
       IF referrer = procs[p].w
         THEN Fail(p, "You cannot use your own referral code")
       ELSE IF ~AllThree(profiles[referrer])
         THEN Fail(p, "This referral code is currently inactive")
       ELSE Goto(p, [procs[p] EXCEPT !.pc = "ar_insert", !.referrer = referrer])

\* applyReferralCode: insert into referrals; the unique index rejects a
\* second row for the wallet and the rejection reaches the caller
ArInsert(p) ==
  /\ procs[p].pc = "ar_insert"
  /\ IF DuplicateReferred(Store, procs[p].w)
       THEN Goto(p, [procs[p] EXCEPT !.pc = "failed", !.ret = "throws"])
       ELSE GotoWith(p, [procs[p] EXCEPT !.pc = "ar_update"],
                     [Store EXCEPT !.referrals =
                        Append(@, ReferralRow(procs[p].referrer, procs[p].w,
                                              procs[p].code))])

\* applyReferralCode: update wallet_profiles set referredBy = code
ArUpdate(p) ==
  /\ procs[p].pc = "ar_update"
  /\ GotoWith(p, [procs[p] EXCEPT !.pc = "done", !.ret = "ok"],
              [Store EXCEPT !.profiles[procs[p].w].referredBy = procs[p].code])

\* a request calls the in-memory applyReferralCode(w, code)
MockApply(p) ==
  /\ impl = "mock"
  /\ procs[p].pc = "idle"
  /\ \E w \in Wallets, c \in CodeInputs :
       LET r == MockApplyReferralCode(Store, w, c) IN
       GotoWith(p, [procs[p] EXCEPT !.op = "applyReferralCode", !.pc = "done",
                                    !.w = w, !.code = ToUpperCase(c),
                                    !.ret = IF r.ok THEN "ok" ELSE r.msg],
                r.s)

\* the store the requests start from: both wallets have connected X,
\* connected Discord and verified, so each holds a code the other may use
BothReady(i) ==
  IF i = "db"
    THEN LET s0 == DbGetOrCreateWalletProfile(ReferrerReady(i), "w2")
             s1 == DbConnectXAccount(s0, "w2", "alice", 100).s
             s2 == DbConnectDiscordAccount(s1, "w2", "bob", "d1").s
         IN DbVerifyDiscordServer(s2, "w2", 200).s
    ELSE LET s1 == MockConnectXAccount(ReferrerReady(i), "w2", "alice").s
             s2 == MockConnectDiscordAccount(s1, "w2", "bob").s
         IN MockVerifyDiscordServer(s2, "w2").s

InitApply ==
  /\ impl \in {"db", "mock"}
  /\ InitStore(BothReady(impl))
  /\ xBonus = 100
  /\ mock = NoStore
  /\ pendingOAuthStates = NoPending
  /\ pendingDiscordStates = NoPending
  /\ collation = OneSpelling
  /\ procs = [p \in Procs |-> IdleProc]

NextApply ==
  \E p \in Procs :
    \/ ApplyCall(p)
    \/ ArRead(p)
    \/ ArFind(p)
    \/ ArInsert(p)
    \/ ArUpdate(p)
    \/ MockApply(p)

SpecApply == InitApply /\ [][NextApply]_vars

\* the Referral rows of store s whose referred wallet is w
EdgesOf(s, w) ==
  {i \in 1..Len(s.referrals) : s.referrals[i].referredWallet = w}

\* no wallet is referred twice, and a wallet that has a referrer is refused
\* whatever code it sends
SingleEdge ==
  \A w \in Wallets :
    /\ Cardinality(EdgesOf(Store, w)) <= 1
    /\ profiles[w].referredBy # Null =>
         \A c \in CodeInputs : ~Apply(w, c).ok /\ Apply(w, c).s = Store

\* a step keeps every referredBy that is set and every Referral row, and a
\* request that finds referredBy set ends without touching the store
EdgeKept ==
  /\ \A w \in Wallets :
       profiles[w].referredBy # Null =>
         profiles'[w].referredBy = profiles[w].referredBy
  /\ Len(referrals') >= Len(referrals)
  /\ \A i \in 1..Len(referrals) :
       /\ referrals'[i].referredWallet = referrals[i].referredWallet
       /\ referrals'[i].referrerWallet = referrals[i].referrerWallet
  /\ \A p \in Procs :
       ( /\ procs[p].pc = "ar_read"
         /\ procs'[p] # procs[p]
         /\ profiles[procs[p].w].referredBy # Null )
       => /\ procs'[p].pc = "done"
          /\ procs'[p].ret # "ok"
          /\ UNCHANGED store_vars

\* C12: single referral edge.  In every reachable state each wallet is the
\* referred wallet of at most one Referral row; a referredBy that is set
\* never changes; applyReferralCode for a wallet whose referredBy is set
\* fails and changes nothing; all of it also when two applyReferralCode
\* requests for one wallet interleave.
SingleReferralEdge == []SingleEdge /\ [][EdgeKept]_vars

\* two requests for one wallet have both passed the profile check; one has
\* inserted the row and returned success, the insert of the other was
\* rejected
SingleReferralEdgeWitness ==
  \E p, q \in Procs :
    /\ p # q
    /\ procs[p].w = procs[q].w
    /\ procs[p].pc = "done" /\ procs[p].ret = "ok"
    /\ procs[q].pc = "failed" /\ procs[q].ret = "throws"
    /\ Cardinality(EdgesOf(Store, procs[p].w)) = 1
    /\ profiles[procs[p].w].referredBy = procs[p].code

(***************************************************************************)
(* SpecDaily: the database completeDailyPost and claimReferralBonus as     *)
(* concurrent requests, one step per awaited store call.                   *)
(***************************************************************************)
\* a request calls completeDailyPost(w, tweetUrl)
DailyCall(p) ==
  /\ procs[p].pc = "idle"
  /\ \E w \in Wallets, url \in TweetUrls :
       Goto(p, [procs[p] EXCEPT !.op = "completeDailyPost", !.pc = "dp_read",
                                !.w = w, !.tweetUrl = url])

\* a request calls claimReferralBonus(referredWallet)
ClaimCall(p) ==
  /\ procs[p].pc = "idle"
  /\ \E w \in Wallets :
       Goto(p, [procs[p] EXCEPT !.op = "claimReferralBonus", !.pc = "cr_read",
                                !.w = w, !.referred = w])

\* completeDailyPost: the profile is read and the X connection checked
DpRead(p) ==
  /\ procs[p].pc = "dp_read"
  /\ LET profile == profiles[procs[p].w] IN
     IF ~profile.exists THEN Fail(p, "Profile not found")
     ELSE IF ~profile.xConnected
       THEN Fail(p, "X account must be connected first")
     ELSE Goto(p, [procs[p] EXCEPT !.pc = "dp_check", !.profile = profile])

\* completeDailyPost: hasCompletedTask(w, "daily_post", today)
DpCheck(p) ==
  /\ procs[p].pc = "dp_check"
  /\ IF HasCompletedTask(Store, procs[p].w, Today)
       THEN Fail(p, "Daily post already completed today")
       ELSE Goto(p, [procs[p] EXCEPT !.pc = "dp_insert"])

\* completeDailyPost: completeTask inserts the completion, then addPoints
\* is called
DpInsert(p) ==
  /\ procs[p].pc = "dp_insert"
  /\ GotoWith(p, [procs[p] EXCEPT !.pc = "ap_read", !.pts = 100,
                                  !.type = "daily_post", !.phase = "task"],
              CompleteTask(Store, procs[p].w, 100, procs[p].tweetUrl))

\* completeDailyPost: with the referredBy read at the start, the referral
\* is selected and, when unclaimed, claimReferralBonus is called
DpReferral(p) ==
  /\ procs[p].pc = "dp_referral"
  /\ LET i == ReferralOf(Store, procs[p].w) IN
     IF procs[p].profile.referredBy # Null /\ i # 0
        /\ ~referrals[i].referrerClaimed
       THEN Goto(p, [procs[p] EXCEPT !.pc = "cr_read", !.referred = procs[p].w])
       ELSE Goto(p, [procs[p] EXCEPT !.pc = "done", !.ret = "ok"])

\* claimReferralBonus returns a failure: a direct call reports it,
\* completeDailyPost ignores it and returns success
CrFail(p, msg) ==
  IF procs[p].op = "claimReferralBonus" THEN Fail(p, msg)
  ELSE Goto(p, [procs[p] EXCEPT !.pc = "done", !.ret = "ok"])

\* claimReferralBonus: the referral is selected and referrerClaimed checked,
\* then addPoints is called for the referrer
CrRead(p) ==
  /\ procs[p].pc = "cr_read"
  /\ LET i == ReferralOf(Store, procs[p].referred) IN
     IF i = 0 THEN CrFail(p, "No referral found for this wallet")
     ELSE IF referrals[i].referrerClaimed
       THEN CrFail(p, "Referral bonus already claimed")
     ELSE Goto(p, [procs[p] EXCEPT
                     !.pc = "ap_read", !.referrer = referrals[i].referrerWallet,
                     !.w = referrals[i].referrerWallet, !.pts = 50,
                     !.type = "referral_bonus", !.phase = "referrer"])

\* claimReferralBonus: getWalletProfile(referrer)
CrStatsRead(p) ==
  /\ procs[p].pc = "cr_stats_read"
  /\ LET referrerProfile == profiles[procs[p].referrer] IN
     Goto(p, [procs[p] EXCEPT
                !.pc = IF referrerProfile.exists THEN "cr_stats_update"
                                                 ELSE "cr_mark",
                !.profile = referrerProfile])

\* claimReferralBonus: the referrer's referralCount and referralPointsEarned
\* are written from the profile just read
CrStatsUpdate(p) ==
  /\ procs[p].pc = "cr_stats_update"
  /\ GotoWith(p, [procs[p] EXCEPT !.pc = "cr_mark"],
              [Store EXCEPT
                 !.profiles[procs[p].referrer].referralCount =
                    procs[p].profile.referralCount + 1,
                 !.profiles[procs[p].referrer].referralPointsEarned =
                    procs[p].profile.referralPointsEarned + 50])

\* claimReferralBonus: the referral row is marked claimed
CrMark(p) ==
  /\ procs[p].pc = "cr_mark"
  /\ LET i == ReferralOf(Store, procs[p].referred) IN
     GotoWith(p, [procs[p] EXCEPT !.pc = "done", !.ret = "ok"],
              [Store EXCEPT !.referrals[i].referrerClaimed = TRUE,
                            !.referrals[i].referredClaimed = TRUE,
                            !.referrals[i].claimedAt = Now,
                            !.referrals[i].referrerPoints = 50,
                            !.referrals[i].referredPoints = 50])

\* the store the requests start from: w1 is eligible to refer; w2 has
\* fetched its profile, connected X and then used w1's code, so its
\* Referral is unclaimed
ReferredReady ==
  LET s0 == DbGetOrCreateWalletProfile(ReferrerReady("db"), "w2")
      s1 == DbConnectXAccount(s0, "w2", "alice", 100).s
  IN DbApplyReferralCode(s1, "w2", NanoId(1)).s

InitDaily ==
  /\ impl = "db"
  /\ InitStore(ReferredReady)
  /\ xBonus = 100
  /\ mock = NoStore
  /\ pendingOAuthStates = NoPending
  /\ pendingDiscordStates = NoPending
  /\ collation = OneSpelling
  /\ procs = [p \in Procs |-> IdleProc]

NextDaily ==
  \E p \in Procs :
    \/ DailyCall(p)
    \/ ClaimCall(p)
    \/ DpRead(p)
    \/ DpCheck(p)
    \/ DpInsert(p)
    \/ ApRead(p)
    \/ ApUpdate(p)
    \/ ApInsert(p)
    \/ DpReferral(p)
    \/ CrRead(p)
    \/ CrStatsRead(p)
    \/ CrStatsUpdate(p)
    \/ CrMark(p)

SpecDaily == InitDaily /\ [][NextDaily]_vars

\* C16: once per day.  In every reachable state each wallet has at most one
\* active daily_post completion for the date, also when two completeDailyPost
\* requests for the wallet interleave between the hasCompletedTask check and
\* the insert of the completion.
OncePerDay ==
  \A w \in Wallets : Cardinality(CompletionsOf(Store, w, "active")) <= 1

\* the referral_bonus rows of the history written for wallet w
BonusRowsOf(w) ==
  {k \in 1..Len(history) :
     /\ history[k].walletAddress = w
     /\ history[k].transactionType = "referral_bonus"}

\* the Referral rows wallet w takes part in, as referrer or as referred
EdgesWith(w) ==
  {i \in 1..Len(referrals) :
     referrals[i].referrerWallet = w \/ referrals[i].referredWallet = w}

\* C18: each Referral pays out at most once.  Over any run a wallet holds
\* at most one referral_bonus award per Referral it takes part in (one to
\* the referrer and one to the referred wallet of each edge), also when
\* auto-claims and direct claimReferralBonus calls for the same referred
\* wallet interleave.
PaysAtMostOnce ==
  \A w \in Wallets :
    Cardinality(BonusRowsOf(w)) <= Cardinality(EdgesWith(w))

(***************************************************************************)
(* Properties of the reconciliation adapters and sweeps, run to            *)
(* completion.                                                             *)
(***************************************************************************)
\* the outcomes of the oEmbed request: the statuses the sweeps are run with
\* and further success, rate-limit and server-error statuses
OEmbedOutcomes == TweetStatuses \cup {204, 302, 429, 503}

\* the statuses of the active tweet completions of wallet w, all 200 but the
\* one of completion id
OnlyStatus(w, id, status) ==
  [i \in ActiveTweetCompletions(Store, {w}) |-> IF i = id THEN status ELSE 200]

\* C23: checkTweetExists returns false exactly when the oEmbed status is 404
\* or 403 and true for every other outcome (success, 429, 5xx, any other
\* status, a rejected or timed-out fetch); so the sweep over a wallet revokes
\* an active completion exactly on 404 and 403.
TweetExistsUnless404Or403 ==
  /\ \A status \in OEmbedOutcomes :
       CheckTweetExists(status) <=> status \notin {404, 403}
  /\ impl = "db" =>
       \A id \in ActiveTweetCompletions(Store, Addresses), status \in TweetStatuses :
         LET w == completions[id].walletAddress
             r == DbCheckAndRevokeDeletedTweets(Store, w, OnlyStatus(w, id, status))
         IN (r.s.completions[id].status = "revoked") <=> status \in {404, 403}

\* a tweet completion has been revoked while another one is still active and
\* open to the next sweep
TweetExistsUnless404Or403Witness ==
  /\ impl = "db"
  /\ ActiveTweetCompletions(Store, Addresses) # {}
  /\ \E i \in 1..Len(completions) :
       completions[i].status = "revoked" /\ completions[i].metadata = "http"

\* the indeterminate answers of the two adapters
IndeterminateMember == MemberStatuses \ {200, 404}
IndeterminateTweet == TweetStatuses \ {200, 404, 403}

\* the answers with every indeterminate one replaced by a success
AsMember(statusOf) ==
  [u \in DOMAIN statusOf |->
     IF statusOf[u] \in IndeterminateMember THEN 200 ELSE statusOf[u]]
AsExists(statusOf) ==
  [i \in DOMAIN statusOf |->
     IF statusOf[i] \in IndeterminateTweet THEN 200 ELSE statusOf[i]]

\* the rows of history h written for wallet w, in order
LedgerOf(h, w) == SelectSeq(h, LAMBDA row : row.walletAddress = w)

\* C22: fail-open verification.  An indeterminate answer for an item (for
\* membership any status but 200 and 404, for tweets any status but 200, 404
\* and 403, or a rejected or timed-out fetch) changes nothing of that item in
\* the run: the single-wallet check leaves the store as it was, and each
\* sweep leaves the store it would leave had the item been confirmed
\* present, so the wallet's discordVerified, the completion's status, the
\* wallet's total and its history are the same.
FailOpen ==
  impl = "db" =>
    /\ \A w \in Wallets, status \in IndeterminateMember :
         DbCheckUserDiscordMembership(Store, w, status).s = Store
    /\ \A statusOf \in [VerifiedUsers(Store) -> MemberStatuses] :
         LET r == DbCheckDiscordServerMemberships(Store, statusOf) IN
         /\ r.s = DbCheckDiscordServerMemberships(Store, AsMember(statusOf)).s
         /\ \A u \in VerifiedUsers(Store) :
              statusOf[u] \in IndeterminateMember =>
                /\ r.s.profiles[u] = profiles[u]
                /\ LedgerOf(r.s.history, u) = LedgerOf(history, u)
    /\ \A statusOf \in [ActiveTweetCompletions(Store, Addresses) -> TweetStatuses] :
         LET r == DbCronCheckAllTweets(Store, statusOf) IN
         /\ r.s = DbCronCheckAllTweets(Store, AsExists(statusOf)).s
         /\ \A i \in DOMAIN statusOf :
              statusOf[i] \in IndeterminateTweet =>
                r.s.completions[i] = completions[i]
         /\ \A w \in Wallets :
              (\A i \in ActiveTweetCompletions(Store, {w}) :
                   statusOf[i] \in IndeterminateTweet)
                => /\ r.s.profiles[w] = profiles[w]
                   /\ LedgerOf(r.s.history, w) = LedgerOf(history, w)
    /\ \A w \in Wallets :
         \A statusOf \in [ActiveTweetCompletions(Store, {w}) -> TweetStatuses] :
           LET r == DbCheckAndRevokeDeletedTweets(Store, w, statusOf) IN
           /\ r.s = DbCheckAndRevokeDeletedTweets(Store, w, AsExists(statusOf)).s
           /\ (\A i \in DOMAIN statusOf : statusOf[i] \in IndeterminateTweet)
                => r.s = Store

\* both sweeps have something to check: a verified wallet with a Discord id
\* and an active completion that carries a tweet URL
FailOpenWitness ==
  /\ impl = "db"
  /\ VerifiedUsers(Store) # {}
  /\ \E w \in VerifiedUsers(Store) : ActiveTweetCompletions(Store, {w}) # {}

(***************************************************************************)
(* Frame of the refusals.                                                  *)
(***************************************************************************)
\* the results the core operations can return to wallet w in the current
\* state, over every input
CoreResults(w) ==
  IF impl = "db"
    THEN {DbClaimConnectBonus(Store, w), DbDisconnectXAccount(Store, w, xBonus),
          DbDisconnectDiscordAccount(Store, w), DbClaimReferralBonus(Store, w)}
         \cup {DbConnectXAccount(Store, w, n, xBonus) : n \in XNames}
         \cup {DbConnectDiscordAccount(Store, w, n, d) :
                 n \in DiscordNames, d \in DiscordIds}
         \cup {DbVerifyDiscordServer(Store, w, status) : status \in MemberStatuses}
         \cup {DbCompleteDailyPost(Store, w, url) : url \in TweetUrls}
         \cup {DbApplyReferralCode(Store, w, c) : c \in CodeInputs}
         \cup {DbRevokeTweetPoints(Store, id) : id \in 1..(Len(completions) + 1)}
    ELSE {MockClaimConnectBonus(Store, w), MockDisconnectXAccount(Store, w),
          MockDisconnectDiscordAccount(Store, w), MockClaimReferralBonus(Store, w),
          MockVerifyDiscordServer(Store, w)}
         \cup {MockConnectXAccount(Store, w, n) : n \in XNames}
         \cup {MockConnectDiscordAccount(Store, w, n) : n \in DiscordNames}
         \cup {MockCompleteDailyPost(Store, w, url) : url \in TweetUrls}
         \cup {MockApplyReferralCode(Store, w, c) : c \in CodeInputs}
         \cup {MockRevokeTweetPoints(Store, id) : id \in 1..(Len(completions) + 1)}

\* C27 as stated: a core operation that returns success = false leaves
\* every WalletProfile, PointsHistory, TaskCompletion and Referral row as it
\* was.
RefusalChangesNothing ==
  \A w \in Wallets : \A r \in CoreResults(w) : ~r.ok => r.s = Store

\* C27, amended: a refusal of the database-backed implementation changes
\* nothing; a refusal of the in-memory implementation changes nothing but
\* the profile of the calling wallet, which it creates (zero balance,
\* nothing connected) when the wallet had none.
RefusalFrame ==
  \A w \in Wallets : \A r \in CoreResults(w) :
    ~r.ok => IF impl = "db" THEN r.s = Store
                            ELSE r.s \in {Store, EnsureProfile(Store, w)}

\* a wallet is connected, verified and referred, so that connecting,
\* verifying and applying a code again are refused
RefusalFrameWitness ==
  \E w \in Wallets :
    /\ profiles[w].xConnected
    /\ profiles[w].discordVerified
    /\ profiles[w].referredBy # Null
    /\ \A c \in CodeInputs : ~Apply(w, c).ok
    /\ \E r \in CoreResults(w) : ~r.ok /\ r.s = Store

\* the store after addPoints(w, pts, type) on the implementation of the run
AddPoints(w, pts, type) ==
  IF impl = "db" THEN DbAddPoints(Store, w, pts, type)
                 ELSE MockAddPoints(Store, w, pts, type)

\* the store s holds a profile for w with total pts and, as its last history
\* row, the award of pts of the given type to w
CreatedWith(s, w, pts, type) ==
  /\ s.profiles[w].exists
  /\ s.profiles[w].totalPoints = pts
  /\ Len(s.history) = Len(history) + 1
  /\ s.history[Len(s.history)] = HistoryRow(w, type, pts, pts)

\* C29: lookup-or-create.  addPoints, and adjustUserPoints which calls it,
\* on a wallet that has no profile create the profile with zero balance,
\* apply the delta and append the history row; they neither fail nor do
\* nothing.
AddPointsCreatesProfile ==
  \A w \in Wallets :
    ~profiles[w].exists =>
      /\ \A c \in AddPointsCalls : CreatedWith(AddPoints(w, c.pts, c.type), w, c.pts, c.type)
      /\ \A d \in AdjustDeltas :
           LET r == IF impl = "db" THEN DbAdjustUserPoints(Store, w, d)
                                   ELSE MockAdjustUserPoints(Store, w, d)
           IN r.ok /\ CreatedWith(r.s, w, d, "admin_adjustment")

(***************************************************************************)
(* SpecBonus: the database claimConnectBonus as concurrent requests, one   *)
(* step per awaited store call.                                            *)
(***************************************************************************)
\* a request calls claimConnectBonus(w)
BonusCall(p) ==
  /\ procs[p].pc = "idle"
  /\ \E w \in Wallets :
       Goto(p, [procs[p] EXCEPT !.op = "claimConnectBonus", !.pc = "cb_read",
                                !.w = w])

\* claimConnectBonus: the profile is read and connectBonusClaimed checked
CbRead(p) ==
  /\ procs[p].pc = "cb_read"
  /\ LET profile == profiles[procs[p].w] IN
     IF ~profile.exists THEN Fail(p, "Profile not found")
     ELSE IF profile.connectBonusClaimed
       THEN Fail(p, "Connect bonus already claimed")
     ELSE Goto(p, [procs[p] EXCEPT !.pc = "cb_update"])

\* claimConnectBonus: connectBonusClaimed is set, then addPoints is called
CbUpdate(p) ==
  /\ procs[p].pc = "cb_update"
  /\ GotoWith(p, [procs[p] EXCEPT !.pc = "ap_read", !.pts = 300,
                                  !.type = "connect_bonus", !.phase = "return"],
              [Store EXCEPT !.profiles[procs[p].w].connectBonusClaimed = TRUE])

\* the stores the requests start from: w1 has fetched its profile, and w2
\* has or has not
BonusSeeds ==
  LET s1 == DbGetOrCreateWalletProfile(EmptyStore, "w1")
  IN {s1, DbGetOrCreateWalletProfile(s1, "w2")}

InitBonus ==
  /\ impl = "db"
  /\ \E s \in BonusSeeds : InitStore(s)
  /\ xBonus = 100
  /\ mock = NoStore
  /\ pendingOAuthStates = NoPending
  /\ pendingDiscordStates = NoPending
  /\ collation = OneSpelling
  /\ procs = [p \in Procs |-> IdleProc]

NextBonus ==
  \E p \in Procs :
    \/ BonusCall(p)
    \/ CbRead(p)
    \/ CbUpdate(p)
    \/ ApRead(p)
    \/ ApUpdate(p)
    \/ ApInsert(p)

SpecBonus == InitBonus /\ [][NextBonus]_vars

\* C28: each wallet receives the one-time connect bonus at most once.  In
\* every reachable state the wallet's history holds at most one
\* connect_bonus row, also when two claimConnectBonus requests for the
\* wallet interleave between the flag check and the flag update.
ConnectBonusOnce ==
  \A w \in Wallets :
    Cardinality(RowsOf(history, w, "connect_bonus")) <= 1

(***************************************************************************)
(* SpecSweep: the database tweet sweeps and revokeTweetPoints as           *)
(* concurrent requests, one step per awaited call; an awaited store call   *)
(* of a revocation may reject.                                             *)
(***************************************************************************)
Sweeps == {"cronCheckAllTweets", "checkAndRevokeDeletedTweets"}

\* the date before Today
Yesterday == "d0"

\* an admin calls revokeTweetPoints(id)
RevokeCall(p) ==
  /\ procs[p].pc = "idle"
  /\ \E id \in 1..Len(completions) :
       Goto(p, [procs[p] EXCEPT !.op = "revokeTweetPoints", !.pc = "rv_read",
                                !.id = id])

\* the scheduler calls cronCheckAllTweets(), or a request calls
\* checkAndRevokeDeletedTweets(w)
SweepCall(p) ==
  /\ procs[p].pc = "idle"
  /\ \/ Goto(p, [procs[p] EXCEPT !.op = "cronCheckAllTweets", !.pc = "sw_list"])
     \/ \E w \in Wallets :
          Goto(p, [procs[p] EXCEPT !.op = "checkAndRevokeDeletedTweets",
                                   !.pc = "sw_list", !.w = w])

\* the sweep reads the active tweet completions, of every wallet or of its
\* wallet
SwList(p) ==
  /\ procs[p].pc = "sw_list"
  /\ Goto(p, [procs[p] EXCEPT
                !.pc = "sw_item",
                !.todo = ActiveTweetCompletions(
                           Store, IF procs[p].op = "cronCheckAllTweets"
                                    THEN Addresses ELSE {procs[p].w})])

\* the sweep takes its next completion and asks checkTweetExists; when the
\* tweet is gone it calls revokeTweetPoints; after the last completion it
\* returns its counts
SwItem(p) ==
  /\ procs[p].pc = "sw_item"
  /\ IF procs[p].todo = {}
       THEN Goto(p, [procs[p] EXCEPT !.pc = "done", !.ret = "ok"])
       ELSE
         LET id == Max(procs[p].todo) IN
         \E status \in TweetStatuses :
           IF CheckTweetExists(status)
             THEN Goto(p, [procs[p] EXCEPT !.todo = @ \ {id},
                                           !.counts.checked = @ + 1])
             ELSE Goto(p, [procs[p] EXCEPT !.pc = "rv_read", !.id = id,
                                           !.counts.checked = @ + 1])

\* revokeTweetPoints returns a failure: to the admin, or to the sweep, which
\* does not count it and takes its next completion
RvFail(p, msg) ==
  IF procs[p].op = "revokeTweetPoints" THEN Fail(p, msg)
  ELSE Goto(p, [procs[p] EXCEPT !.pc = "sw_item", !.todo = @ \ {procs[p].id}])

\* revokeTweetPoints: the completion is selected and its status checked
RvRead(p) ==
  /\ procs[p].pc = "rv_read"
  /\ IF procs[p].id \notin 1..Len(completions)
       THEN RvFail(p, "Task completion not found")
     ELSE IF completions[procs[p].id].status = "revoked"
       THEN RvFail(p, "Already revoked")
     ELSE Goto(p, [procs[p] EXCEPT
                     !.pc = "rv_update",
                     !.w = completions[procs[p].id].walletAddress,
                     !.pts = -completions[procs[p].id].pointsAwarded])

\* revokeTweetPoints: the completion is marked revoked, then addPoints is
\* called
RvUpdate(p) ==
  /\ procs[p].pc = "rv_update"
  /\ GotoWith(p, [procs[p] EXCEPT !.pc = "ap_read", !.type = "tweet_revoked",
                                  !.phase = "revoked"],
              [Store EXCEPT !.completions[procs[p].id].status = "revoked",
                            !.completions[procs[p].id].revokedAt = Now])

\* an awaited store call of a revocation rejects.  revokeTweetPoints and
\* addPoints catch nothing; cronCheckAllTweets catches the rejection, counts
\* an error and takes its next completion; checkAndRevokeDeletedTweets has
\* no try/catch, so the rejection ends it
RvRejects(p) ==
  /\ procs[p].pc \in {"rv_read", "rv_update", "ap_read", "ap_update", "ap_insert"}
  /\ IF procs[p].op = "cronCheckAllTweets"
       THEN Goto(p, [procs[p] EXCEPT !.pc = "sw_item", !.todo = @ \ {procs[p].id},
                                     !.counts.errors = @ + 1])
       ELSE Goto(p, [procs[p] EXCEPT !.pc = "failed", !.ret = "throws"])

\* the store the requests start from: w1, X-connected, has posted a tweet
\* yesterday and another one today
SweepSeed ==
  LET s1 == DbCompleteDailyPost(ReferrerReady("db"), "w1", "http").s
      s2 == [s1 EXCEPT !.completions[1].completionDate = Yesterday]
  IN DbCompleteDailyPost(s2, "w1", "http").s

InitSweep ==
  /\ impl = "db"
  /\ InitStore(SweepSeed)
  /\ xBonus = 100
  /\ mock = NoStore
  /\ pendingOAuthStates = NoPending
  /\ pendingDiscordStates = NoPending
  /\ collation = OneSpelling
  /\ procs = [p \in Procs |-> IdleProc]

NextSweep ==
  \E p \in Procs :
    \/ RevokeCall(p)
    \/ SweepCall(p)
    \/ SwList(p)
    \/ SwItem(p)
    \/ RvRead(p)
    \/ RvUpdate(p)
    \/ ApRead(p)
    \/ ApUpdate(p)
    \/ ApInsert(p)
    \/ RvRejects(p)

SpecSweep == InitSweep /\ [][NextSweep]_vars

\* the revoked daily_post completions of wallet w, of any date
CompletionsOfAnyDay(w) ==
  {i \in 1..Len(completions) :
     /\ completions[i].walletAddress = w
     /\ completions[i].status = "revoked"}

\* C24: tweet reconciliation deducts once.  A completion whose tweet is
\* reported deleted is marked revoked and its points are taken once: a
\* wallet never holds more tweet_revoked deductions than it has revoked
\* completions, whether the sweeps and the admin revocations follow one
\* another or overlap.
DeductsOnce ==
  \A w \in Wallets :
    Cardinality(RowsOf(history, w, "tweet_revoked"))
      <= Cardinality(CompletionsOfAnyDay(w))

\* C25: sweep isolation.  A failure while a sweep processes one completion
\* is counted in its errors counter and the sweep goes on to its remaining
\* completions and returns its counts; no sweep is ended by a failing item.
SweepNeverAborts ==
  \A p \in Procs :
    procs[p].op \in Sweeps =>
      /\ procs[p].pc # "failed"
      /\ procs[p].pc = "done" => procs[p].todo = {}

(***************************************************************************)
(* SpecMembership: the database-backed operations of this build on a store *)
(* that may have been written by an earlier build, whose verify bonus      *)
(* literal in verifyDiscordServer had another value.                       *)
(***************************************************************************)
VerifyBonuses == {50, 80}

\* the store after w1 connected Discord and verifyDiscordServer, in a build
\* whose literal was bonusPoints, found w1 in the guild
VerifiedBy(bonusPoints) ==
  LET s0 == DbGetOrCreateWalletProfile(EmptyStore, "w1")
      s1 == DbConnectDiscordAccount(s0, "w1", "bob", "d1").s
      s2 == [s1 EXCEPT !.profiles["w1"].discordVerified = TRUE,
                       !.profiles["w1"].discordVerifiedAt = Now]
      s3 == DbAddPoints(s2, "w1", bonusPoints, "discord_verify")
      s4 == DbMaybeGenerateReferralCode(s3, "w1")
  IN DbMaybeClaimReferralBonus(s4, "w1")

InitMembership ==
  /\ impl = "db"
  /\ \E s \in Seeds("db") \cup {VerifiedBy(b) : b \in VerifyBonuses} :
       InitStore(s)
  /\ xBonus = 100
  /\ mock = NoStore
  /\ pendingOAuthStates = NoPending
  /\ pendingDiscordStates = NoPending
  /\ collation = OneSpelling
  /\ procs = [p \in Procs |-> IdleProc]

NextMembership == Operation

SpecMembership == InitMembership /\ [][NextMembership]_vars

\* in one step, every discord_verify_revoked row written for a wallet takes
\* the amount of the wallet's most recent discord_verify grant
RevokesTheGrantStep ==
  \A i \in NewRows :
    history'[i].transactionType = "discord_verify_revoked" =>
      history'[i].pointsChange =
        -GetOriginalBonusPoints(Store, history'[i].walletAddress,
                                "discord_verify", 50)

Invitees == {"w2", "w3"}

InitStats ==
  /\ impl \in {"db", "mock"}
  /\ InitStore(ReferrerReady(impl))
  /\ xBonus = 100
  /\ mock = NoStore
  /\ pendingOAuthStates = NoPending
  /\ pendingDiscordStates = NoPending
  /\ collation = OneSpelling
  /\ procs = [p \in Procs |-> IdleProc]

NextStats ==
  \E w \in Invitees :
    \/ GetOrCreateWalletProfile(w)
    \/ ConnectXAccount(w)
    \/ ConnectDiscordAccount(w)
    \/ VerifyDiscordServer(w)
    \/ ApplyReferralCode(w)
    \/ ClaimReferralBonus(w)

SpecStats == InitStats /\ [][NextStats]_vars

\* the Referral rows of rs whose referrer is wallet a
ReferralsBy(rs, a) == {j \in 1..Len(rs) : rs[j].referrerWallet = a}

\* the sum of referrerPoints over the rows I of rs
RECURSIVE ReferrerPointsOver(_, _)
ReferrerPointsOver(rs, I) ==
  IF I = {} THEN 0
  ELSE LET i == CHOOSE j \in I : TRUE
       IN rs[i].referrerPoints + ReferrerPointsOver(rs, I \ {i})

\* a step in which a referral is claimed leaves its referrer's aggregates
\* equal to what its Referral rows hold
StatsFromRowsStep ==
  \A i \in 1..Len(referrals) :
    ~referrals[i].referrerClaimed /\ referrals'[i].referrerClaimed =>
      LET a == referrals'[i].referrerWallet IN
      /\ profiles'[a].referralCount = Cardinality(ReferralsBy(referrals', a))
      /\ profiles'[a].referralPointsEarned =
           ReferrerPointsOver(referrals', ReferralsBy(referrals', a))

\* C21: after every successful claimReferralBonus the referrer's
\* referralCount is the number of Referral rows whose referrer it is and
\* its referralPointsEarned is the sum of referrerPoints over those rows.
StatsFromRows == [][StatsFromRowsStep]_vars

(***************************************************************************)
(* SpecCase: getOrCreateWalletProfile and applyReferralCode called with    *)
(* addresses in either letter case, on either implementation, the database *)
(* under either collation.                                                 *)
(***************************************************************************)
\* String.prototype.toLowerCase on an address: normalize of the in-memory
\* store
Normalize(a) == IF a = "W1" THEN "w1" ELSE a

\* the database under collation c finds the address strings x and y equal
SameAddress(c, x, y) ==
  IF c = "ci" THEN Normalize(x) = Normalize(y) ELSE x = y

\* the key of the wallet_profiles row that eq(walletAddress, a) selects
\* under collation c; a itself when it selects none
ProfileKey(s, c, a) ==
  LET found == {k \in Addresses : s.profiles[k].exists /\ SameAddress(c, k, a)}
  IN IF found = {} THEN a ELSE CHOOSE k \in found : TRUE

\* getOrCreateWalletProfile(a) on a database of collation c
DbGetOrCreateWalletProfileUnder(s, c, a) ==
  DbGetOrCreateWalletProfile(s, ProfileKey(s, c, a))

\* applyReferralCode(a, referralCode) on a database of collation c: the
\* selects, the unique index and the update compare as c does, the self
\* check is the === of JavaScript, and the inserted row carries a as typed
DbApplyReferralCodeUnder(s, c, a, referralCode) ==
  LET code == ToUpperCase(referralCode)
      found == ReferrerByCode(s, code)
      k == ProfileKey(s, c, a)
  IN
  IF ~s.profiles[k].exists THEN Res(s, FALSE, "Profile not found")
  ELSE IF s.profiles[k].referredBy # Null
    THEN Res(s, FALSE, "You have already used a referral code")
  ELSE IF found = {} THEN Res(s, FALSE, "Invalid referral code")
  ELSE
    LET referrer == CHOOSE r \in found : TRUE IN
    IF referrer = a
      THEN Res(s, FALSE, "You cannot use your own referral code")
    ELSE IF ~AllThree(s.profiles[referrer])
      THEN Res(s, FALSE, "This referral code is currently inactive")
    ELSE IF \E i \in 1..Len(s.referrals) :
              SameAddress(c, s.referrals[i].referredWallet, a)
      THEN Res(s, FALSE, "throws")
    ELSE Res([s EXCEPT !.referrals = Append(@, ReferralRow(referrer, a, code)),
                       !.profiles[k].referredBy = code],
             TRUE, "Referral code applied!")

\* a request fetches the profile of address a
CaseGetOrCreate(a) ==
  LET r == Res(IF impl = "db"
                 THEN DbGetOrCreateWalletProfileUnder(Store, collation, a)
                 ELSE EnsureProfile(Store, Normalize(a)),
               TRUE, "profile")
  IN /\ Fits(r)
     /\ Return(r)

\* a request applies a referral code for address a
CaseApply(a) ==
  \E c \in CodeInputs :
    LET r == IF impl = "db"
               THEN DbApplyReferralCodeUnder(Store, collation, a, c)
               ELSE MockApplyReferralCode(Store, Normalize(a), c)
    IN /\ Fits(r)
       /\ Return(r)

InitCase ==
  /\ impl \in {"db", "mock"}
  /\ \E s \in Seeds(impl) : InitStore(s)
  /\ xBonus = 100
  /\ mock = NoStore
  /\ pendingOAuthStates = NoPending
  /\ pendingDiscordStates = NoPending
  /\ collation \in IF impl = "db" THEN Collations ELSE {OneSpelling}
  /\ procs = [p \in Procs |-> IdleProc]

NextCase ==
  \E a \in Addresses :
    \/ CaseGetOrCreate(a)
    \/ CaseApply(a)

SpecCase == InitCase /\ [][NextCase]_vars

\* C30: wallet identity is case-insensitive.  Two address strings that
\* differ only in letter case denote one WalletProfile, so no two profiles
\* exist for them, and no Referral row joins an address to itself under
\* another spelling: applying one's own code that way is refused.
CaseInsensitiveIdentity ==
  /\ \A x, y \in Addresses :
       /\ profiles[x].exists
       /\ profiles[y].exists
       /\ Normalize(x) = Normalize(y)
       => x = y
  /\ \A i \in 1..Len(referrals) :
       Normalize(referrals[i].referrerWallet)
         # Normalize(referrals[i].referredWallet)

(***************************************************************************)
(* SpecTier: getReferralTier and calculateTier called with every referral  *)
(* count up to MaxReferralCount.                                           *)
(***************************************************************************)
MaxReferralCount == 120

\* the table of getReferralTier, in its order
GetReferralTierTiers ==
  << [name |-> "Diamond", minReferrals |-> 100, bonusPerReferral |-> 100,
      percentageBonus |-> 15],
     [name |-> "Platinum", minReferrals |-> 50, bonusPerReferral |-> 75,
      percentageBonus |-> 12],
     [name |-> "Gold", minReferrals |-> 25, bonusPerReferral |-> 60,
      percentageBonus |-> 10],
     [name |-> "Silver", minReferrals |-> 10, bonusPerReferral |-> 55,
      percentageBonus |-> 8],
     [name |-> "Bronze", minReferrals |-> 0, bonusPerReferral |-> 50,
      percentageBonus |-> 5] >>

\* the table of calculateTier, a second copy of the same literals
CalculateTierTiers ==
  << [name |-> "Diamond", minReferrals |-> 100, bonusPerReferral |-> 100,
      percentageBonus |-> 15],
     [name |-> "Platinum", minReferrals |-> 50, bonusPerReferral |-> 75,
      percentageBonus |-> 12],
     [name |-> "Gold", minReferrals |-> 25, bonusPerReferral |-> 60,
      percentageBonus |-> 10],
     [name |-> "Silver", minReferrals |-> 10, bonusPerReferral |-> 55,
      percentageBonus |-> 8],
     [name |-> "Bronze", minReferrals |-> 0, bonusPerReferral |-> 50,
      percentageBonus |-> 5] >>

\* for (const tier of tiers) if (referralCount >= tier.minReferrals) return
\* tier; after the loop the last tier is returned
FirstTier(tiers, referralCount) ==
  LET hits == {i \in 1..Len(tiers) : referralCount >= tiers[i].minReferrals}
  IN IF hits = {} THEN tiers[Len(tiers)]
     ELSE tiers[CHOOSE i \in hits : \A j \in hits : i <= j]

\* a mutant: the comparison is strict
GetReferralTier_Strict(referralCount) ==
  LET hits == {i \in 1..Len(GetReferralTierTiers) :
                 referralCount > GetReferralTierTiers[i].minReferrals}
  IN IF hits = {} THEN GetReferralTierTiers[Len(GetReferralTierTiers)]
     ELSE GetReferralTierTiers[CHOOSE i \in hits : \A j \in hits : i <= j]

GetReferralTier(referralCount) == FirstTier(GetReferralTierTiers, referralCount)

CalculateTier(referralCount) == FirstTier(CalculateTierTiers, referralCount)

TierOps == {"getReferralTier", "calculateTier"}

\* a caller (the referral.getTier procedure, the statistics, the leaderboard)
\* calls one of the two functions with a referral count
TierCall ==
  /\ procs[1].pc \in {"idle", "done"}
  /\ \E op \in TierOps, n \in 0..MaxReferralCount :
       Goto(1, [IdleProc EXCEPT !.op = op, !.pc = "tier", !.referralCount = n])

\* the function returns its tier
TierReturn ==
  /\ procs[1].pc = "tier"
  /\ Goto(1, [procs[1] EXCEPT
                !.pc = "done",
                !.tier = IF procs[1].op = "getReferralTier"
                           THEN GetReferralTier(procs[1].referralCount)
                           ELSE CalculateTier(procs[1].referralCount)])

InitTier ==
  /\ impl \in {"db", "mock"}
  /\ InitStore(ReferrerReady(impl))
  /\ xBonus = 100
  /\ mock = NoStore
  /\ pendingOAuthStates = NoPending
  /\ pendingDiscordStates = NoPending
  /\ collation = OneSpelling
  /\ procs = [p \in Procs |-> IdleProc]

NextTier == TierCall \/ TierReturn

SpecTier == InitTier /\ [][NextTier]_vars

\* the tier name the thresholds give to n referrals
TierNameOf(n) ==
  IF n >= 100 THEN "Diamond"
  ELSE IF n >= 50 THEN "Platinum"
  ELSE IF n >= 25 THEN "Gold"
  ELSE IF n >= 10 THEN "Silver"
  ELSE "Bronze"

\* a request that has returned from one of the two tier functions
TierReturned == procs[1].op \in TierOps /\ procs[1].pc = "done"

\* C31: getReferralTier(n) and calculateTier(n) return Diamond for
\* n >= 100, Platinum for 50 <= n < 100, Gold for 25 <= n < 50, Silver for
\* 10 <= n < 25 and Bronze for 0 <= n < 10, and the store is what it was
\* before the call.
TierThresholds ==
  /\ TierReturned => procs[1].tier.name = TierNameOf(procs[1].referralCount)
  /\ \A n \in 0..MaxReferralCount :
       /\ GetReferralTier(n).name = TierNameOf(n)
       /\ CalculateTier(n).name = TierNameOf(n)
  /\ Store = ReferrerReady(impl)

TierThresholdsWitness ==
  /\ TierReturned
  /\ procs[1].op = "getReferralTier"
  /\ procs[1].referralCount = 25
  /\ procs[1].tier.name = "Gold"

\* the bonuses the claim gives to a tier name
ClaimedBonuses(name) ==
  IF name = "Diamond" THEN [bonusPerReferral |-> 100, percentageBonus |-> 20]
  ELSE IF name = "Platinum" THEN [bonusPerReferral |-> 75, percentageBonus |-> 15]
  ELSE IF name = "Gold" THEN [bonusPerReferral |-> 60, percentageBonus |-> 12]
  ELSE IF name = "Silver" THEN [bonusPerReferral |-> 55, percentageBonus |-> 11]
  ELSE [bonusPerReferral |-> 50, percentageBonus |-> 10]

\* C32: getReferralTier returns, with the tier name, bonusPerReferral 50,
\* 55, 60, 75, 100 and percentageBonus 10, 11, 12, 15, 20 for Bronze,
\* Silver, Gold, Platinum and Diamond.
TierBonuses ==
  TierReturned /\ procs[1].op = "getReferralTier" =>
    /\ procs[1].tier.bonusPerReferral
         = ClaimedBonuses(procs[1].tier.name).bonusPerReferral
    /\ procs[1].tier.percentageBonus
         = ClaimedBonuses(procs[1].tier.name).percentageBonus

(***************************************************************************)
(* SpecDiscord: verifyDiscordServer and the batch membership sweep on the  *)
(* database, one step per awaited call, while disconnectDiscordAccount and *)
(* checkUserDiscordMembership requests run to completion between their     *)
(* steps.                                                                  *)
(***************************************************************************)
\* a request calls verifyDiscordServer(w)
VerifyCall(p) ==
  /\ procs[p].pc = "idle"
  /\ \E w \in Wallets :
       Goto(p, [procs[p] EXCEPT !.op = "verifyDiscordServer", !.pc = "read",
                                !.w = w])

\* a request calls disconnectDiscordAccount(w), which runs to completion
DisconnectDiscordCall(p) ==
  /\ procs[p].pc = "idle"
  /\ \E w \in Wallets :
       LET r == DbDisconnectDiscordAccount(Store, w)
       IN GotoWith(p, [procs[p] EXCEPT !.op = "disconnectDiscordAccount",
                                       !.pc = "done", !.w = w, !.ret = r.msg],
                   r.s)

\* a profile fetch calls checkUserDiscordMembership(w), which runs to
\* completion
MembershipCheckCall(p) ==
  /\ procs[p].pc = "idle"
  /\ \E w \in Wallets, status \in MemberStatuses :
       LET r == DbCheckUserDiscordMembership(Store, w, status)
       IN GotoWith(p, [procs[p] EXCEPT !.op = "checkUserDiscordMembership",
                                       !.pc = "done", !.w = w, !.ret = r.msg],
                   r.s)

\* the scheduler calls checkDiscordServerMemberships()
MsCall(p) ==
  /\ procs[p].pc = "idle"
  /\ Goto(p, [procs[p] EXCEPT !.op = "checkDiscordServerMemberships",
                              !.pc = "ms_list"])

\* the sweep reads the verified users that have a Discord id
MsList(p) ==
  /\ procs[p].pc = "ms_list"
  /\ Goto(p, [procs[p] EXCEPT !.pc = "ms_item", !.todo = VerifiedUsers(Store)])

\* the sweep takes its next user and asks Discord for the guild member; it
\* returns its counts after the last one
MsItem(p) ==
  /\ procs[p].pc = "ms_item"
  /\ IF procs[p].todo = {}
       THEN Goto(p, [procs[p] EXCEPT !.pc = "done", !.ret = "ok"])
       ELSE
         \E user \in procs[p].todo, status \in MemberStatuses :
           IF status = NetErr
             THEN Goto(p, [procs[p] EXCEPT !.todo = @ \ {user},
                                           !.counts.errors = @ + 1])
           ELSE IF status = 404
             THEN Goto(p, [procs[p] EXCEPT !.pc = "ms_update", !.w = user,
                                           !.counts.checked = @ + 1])
           ELSE IF status # 200
             THEN Goto(p, [procs[p] EXCEPT !.todo = @ \ {user},
                                           !.counts.checked = @ + 1,
                                           !.counts.errors = @ + 1])
           ELSE Goto(p, [procs[p] EXCEPT !.todo = @ \ {user},
                                         !.counts.checked = @ + 1])

\* the sweep clears the user's verified flag, then calls addPoints with -50
MsUpdate(p) ==
  /\ procs[p].pc = "ms_update"
  /\ GotoWith(p, [procs[p] EXCEPT !.pc = "ap_read", !.pts = -50,
                                  !.type = "discord_verify_revoked",
                                  !.phase = "member"],
              [Store EXCEPT !.profiles[procs[p].w].discordVerified = FALSE,
                            !.profiles[procs[p].w].discordVerifiedAt = Null])

\* the stores the requests start from: w1 has connected Discord, in the
\* second has verified its membership too, and in the third has connected X
\* and Discord and has not verified
DiscordSeeds ==
  {DiscordConnected, VerifiedBy(50),
   DbConnectXAccount(DiscordConnected, "w1", "alice", 100).s}

InitDiscord ==
  /\ impl = "db"
  /\ \E s \in DiscordSeeds : InitStore(s)
  /\ xBonus = 100
  /\ mock = NoStore
  /\ pendingOAuthStates = NoPending
  /\ pendingDiscordStates = NoPending
  /\ collation = OneSpelling
  /\ procs = [p \in Procs |-> IdleProc]

NextDiscord ==
  \E p \in Procs :
    \/ VerifyCall(p)
    \/ DisconnectDiscordCall(p)
    \/ MembershipCheckCall(p)
    \/ MsCall(p)
    \/ VdRead(p)
    \/ VdFetch(p)
    \/ VdUpdate(p)
    \/ ApRead(p)
    \/ ApUpdate(p)
    \/ ApInsert(p)
    \/ MgRead(p)
    \/ MgWrite(p)
    \/ McRead(p)
    \/ MsList(p)
    \/ MsItem(p)
    \/ MsUpdate(p)

SpecDiscord == InitDiscord /\ [][NextDiscord]_vars

\* C33: in every reachable state discordVerified implies discordConnected
\* and, on the database, a stored discordId, also when verifyDiscordServer
\* is suspended on the membership request while disconnectDiscordAccount
\* runs for the same wallet.
VerifiedImpliesConnected ==
  \A w \in Wallets :
    profiles[w].discordVerified =>
      /\ profiles[w].discordConnected
      /\ impl = "db" => profiles[w].discordId # Null

\* every request that was made has returned
Quiescent == \A p \in Procs : procs[p].pc \in {"idle", "done"}

\* C35: a verify grant is reversed at most once.  For every wallet the
\* discord_verify_revoked rows do not outnumber the discord_verify rows,
\* also after the batch sweep, the check on profile fetch and
\* disconnectDiscordAccount have acted on the wallet concurrently (the rows
\* are counted once every request has returned, so that a grant whose row
\* is still to be written is not missed).
ReversedAtMostOnce ==
  Quiescent =>
  \A w \in Wallets :
    Cardinality(RowsOf(history, w, "discord_verify_revoked"))
      <= Cardinality(RowsOf(history, w, "discord_verify"))

\* the rows of the types grant and reversal of wallet w sum to the wallet's
\* most recent grant when the flag is set, and to 0 when it is not
NetIsGrant(w, flag, grant, reversal) ==
  LET grants == RowsOf(history, w, grant)
      net == TypedSum(history, w, {grant, reversal})
  IN IF flag THEN grants # {} /\ net = history[Max(grants)].pointsChange
             ELSE net = 0

Pairs(d, m, w) ==
  { [db |-> DbClaimConnectBonus(d, w), mock |-> MockClaimConnectBonus(m, w)],
    [db |-> DbDisconnectXAccount(d, w, 100), mock |-> MockDisconnectXAccount(m, w)],
    [db |-> DbDisconnectDiscordAccount(d, w),
     mock |-> MockDisconnectDiscordAccount(m, w)],
    [db |-> DbVerifyDiscordServer(d, w, 200), mock |-> MockVerifyDiscordServer(m, w)],
    [db |-> DbClaimReferralBonus(d, w), mock |-> MockClaimReferralBonus(m, w)] }
  \cup { [db |-> DbConnectXAccount(d, w, n, 100),
          mock |-> MockConnectXAccount(m, w, n)] : n \in XNames }
  \cup { [db |-> DbConnectDiscordAccount(d, w, n, "d1"),
          mock |-> MockConnectDiscordAccount(m, w, n)] : n \in DiscordNames }
  \cup { [db |-> DbCompleteDailyPost(d, w, url),
          mock |-> MockCompleteDailyPost(m, w, url)] : url \in TweetUrls }
  \cup { [db |-> DbApplyReferralCode(d, w, c),
          mock |-> MockApplyReferralCode(m, w, c)] : c \in CodeInputs }

\* wallet w fetches its profile from both implementations
EquivFetch(w) ==
  /\ Commit(DbGetOrCreateWalletProfile(Store, w))
  /\ mock' = EnsureProfile(mock, w)
  /\ UNCHANGED <<xBonus, impl, procs, collation, oauth_vars>>

\* wallet w, whose profile has been fetched, calls one core operation with
\* the same input on both implementations
EquivOperation(w) ==
  /\ profiles[w].exists
  /\ \E pair \in Pairs(Store, mock, w) :
       /\ Len(pair.db.s.history) <= MaxHistory
       /\ Len(pair.mock.s.history) <= MaxHistory
       /\ Commit(pair.db.s)
       /\ mock' = pair.mock.s
  /\ UNCHANGED <<xBonus, impl, procs, collation, oauth_vars>>

InitEquiv ==
  /\ impl = "db"
  /\ InitStore(EmptyStore)
  /\ mock = EmptyStore
  /\ pendingOAuthStates = NoPending
  /\ pendingDiscordStates = NoPending
  /\ xBonus = 100
  /\ collation = OneSpelling
  /\ procs = [p \in Procs |-> IdleProc]

NextEquiv == \E w \in Wallets : EquivFetch(w) \/ EquivOperation(w)

SpecEquiv == InitEquiv /\ [][NextEquiv]_vars

\* what the claim compares of wallet w in store s
Observed(s, w) ==
  [totalPoints |-> s.profiles[w].totalPoints,
   xConnected |-> s.profiles[w].xConnected,
   discordConnected |-> s.profiles[w].discordConnected,
   discordVerified |-> s.profiles[w].discordVerified,
   hasReferralCode |-> s.profiles[w].referralCode # Null,
   hasReferredBy |-> s.profiles[w].referredBy # Null,
   referralCount |-> s.profiles[w].referralCount]

\* C36: the in-memory store behaves as the database-backed store.  After
\* every sequence of core operations applied to both from the empty state,
\* every wallet has the same totalPoints, connection and verified flags,
\* referral-code presence, referredBy presence and referralCount in both,
\* and the next operation returns the same success or failure in both.
MockBehavesAsDb ==
  \A w \in Wallets :
    /\ Observed(Store, w) = Observed(mock, w)
    /\ profiles[w].exists =>
         \A pair \in Pairs(Store, mock, w) : pair.db.ok = pair.mock.ok

(***************************************************************************)
(* SpecToken: verifyDiscordServer with the token of nanoid(8) drawn from a *)
(* small alphabet, so that a draw can repeat an earlier one.               *)
(***************************************************************************)
\* the values nanoid(8).toUpperCase() can return
Tokens == {NanoId(1), NanoId(2)}

\* the unique index on wallet_profiles.referral_code rejects token for w
DuplicateCode(s, w, token) ==
  \E o \in Addresses \ {w} :
    s.profiles[o].exists /\ s.profiles[o].referralCode = token

\* verifyDiscordServer of the database where maybeGenerateReferralCode draws
\* token: an update that the unique index rejects throws out of the
\* function, after the verified flag and the bonus have been written
DbVerifyDiscordServerDrawing(s, w, status, token) ==
  IF ~s.profiles[w].exists THEN Res(s, FALSE, "Profile not found")
  ELSE IF ~s.profiles[w].discordConnected
    THEN Res(s, FALSE, "Discord account must be connected first")
  ELSE IF s.profiles[w].discordVerified
    THEN Res(s, FALSE, "Discord server already verified")
  ELSE IF s.profiles[w].discordId = Null
    THEN Res(s, FALSE, "Discord ID not found")
  ELSE IF status = 404
    THEN Res(s, FALSE, "You are not a member of the PerpX Discord server")
  ELSE IF status # 200
    THEN Res(s, FALSE, "Failed to verify Discord membership")
  ELSE
    LET s1 == [s EXCEPT !.profiles[w].discordVerified = TRUE,
                        !.profiles[w].discordVerifiedAt = Now]
        s2 == DbAddPoints(s1, w, 50, "discord_verify")
        draws == AllThree(s2.profiles[w]) /\ s2.profiles[w].referralCode = Null
        s3 == IF draws THEN [s2 EXCEPT !.profiles[w].referralCode = token]
                       ELSE s2
    IN IF draws /\ DuplicateCode(s2, w, token) THEN Res(s2, FALSE, "throws")
       ELSE Res(DbMaybeClaimReferralBonus(s3, w), TRUE, "Earned")

\* verifyDiscordServer of the in-memory store where
\* maybeGenerateReferralCode draws token
MockVerifyDiscordServerDrawing(s, w, token) ==
  LET s0 == EnsureProfile(s, w) IN
  IF ~s0.profiles[w].discordConnected
    THEN Res(s0, FALSE, "Discord account must be connected first")
  ELSE IF s0.profiles[w].discordVerified
    THEN Res(s0, FALSE, "Discord server already verified")
  ELSE
    LET s1 == [s0 EXCEPT !.profiles[w].discordVerified = TRUE,
                         !.profiles[w].discordVerifiedAt = Now]
        s2 == MockAddPoints(s1, w, 50, "discord_verify")
        s3 == IF s2.profiles[w].referralCode = Null /\ AllThree(s2.profiles[w])
                THEN [s2 EXCEPT !.profiles[w].referralCode = token]
                ELSE s2
    IN Res(MockMaybeClaimReferralBonus(s3, w), TRUE, "Earned")

\* the store the run starts from: Referrer holds the first token drawn, w2
\* has connected X and Discord
TokenSeed(i) ==
  IF i = "db"
    THEN LET s0 == DbGetOrCreateWalletProfile(ReferrerReady(i), "w2")
             s1 == DbConnectXAccount(s0, "w2", "alice", 100).s
         IN DbConnectDiscordAccount(s1, "w2", "bob", "d1").s
    ELSE LET s1 == MockConnectXAccount(ReferrerReady(i), "w2", "alice").s
         IN MockConnectDiscordAccount(s1, "w2", "bob").s

\* the bound on PointsHistory, counted from the seed
FitsToken(r) == Len(r.s.history) <= Len(TokenSeed("db").history) + MaxHistory

TokenVerify(w) ==
  \E token \in Tokens, status \in MemberStatuses :
    LET r == IF impl = "db"
               THEN DbVerifyDiscordServerDrawing(Store, w, status, token)
               ELSE MockVerifyDiscordServerDrawing(Store, w, token)
    IN /\ FitsToken(r)
       /\ Return(r)

TokenDisconnectDiscord(w) ==
  LET r == IF impl = "db" THEN DbDisconnectDiscordAccount(Store, w)
                        ELSE MockDisconnectDiscordAccount(Store, w)
  IN /\ FitsToken(r)
     /\ Return(r)

TokenConnectDiscord(w) ==
  \E n \in DiscordNames, d \in DiscordIds :
    LET r == IF impl = "db" THEN DbConnectDiscordAccount(Store, w, n, d)
                          ELSE MockConnectDiscordAccount(Store, w, n)
    IN /\ FitsToken(r)
       /\ Return(r)

TokenClaimConnectBonus(w) ==
  LET r == IF impl = "db" THEN DbClaimConnectBonus(Store, w)
                        ELSE MockClaimConnectBonus(Store, w)
  IN /\ FitsToken(r)
     /\ Return(r)

TokenCompleteDailyPost(w) ==
  \E url \in TweetUrls :
    LET r == IF impl = "db" THEN DbCompleteDailyPost(Store, w, url)
                          ELSE MockCompleteDailyPost(Store, w, url)
    IN /\ FitsToken(r)
       /\ Return(r)

InitToken ==
  /\ impl \in {"db", "mock"}
  /\ InitStore(TokenSeed(impl))
  /\ xBonus = 100
  /\ mock = NoStore
  /\ pendingOAuthStates = NoPending
  /\ pendingDiscordStates = NoPending
  /\ collation = OneSpelling
  /\ procs = [p \in Procs |-> IdleProc]

NextToken ==
  \E w \in Wallets :
    \/ TokenVerify(w)
    \/ TokenDisconnectDiscord(w)
    \/ TokenConnectDiscord(w)
    \/ TokenClaimConnectBonus(w)
    \/ TokenCompleteDailyPost(w)

SpecToken == InitToken /\ [][NextToken]_vars

\* C37: referral codes are globally unique.  In every reachable state no
\* two wallet profiles hold the same non-null referralCode, in the
\* database-backed and in the in-memory implementation.
CodesUnique ==
  \A x, y \in Addresses :
    /\ x # y
    /\ profiles[x].referralCode # Null
    => profiles[x].referralCode # profiles[y].referralCode

(***************************************************************************)
(* SpecAdmin: the procedures of appRouter.admin called by clients.  A      *)
(* process is a client; valid records that admin.verifyPassword has        *)
(* returned valid = true to it, op and ret the last procedure the server   *)
(* ran for it and what came of it.                                         *)
(***************************************************************************)
ADMIN_PASSWORD == "perpdex_admin_2026"

\* the passwords a client may send
Passwords == {ADMIN_PASSWORD, "guess"}

AdminMutations ==
  {"admin.adjustPoints", "admin.revokeTweetPoints", "admin.cronCheckTweets"}

AdminQueries == {"admin.getStats", "admin.getUsers"}

\* admin.verifyPassword compares the input with the password and returns
\* the outcome; the server keeps nothing
VerifyPassword(p) ==
  /\ procs[p].pc = "idle"
  /\ \E password \in Passwords :
       Goto(p, [procs[p] EXCEPT
                  !.op = "admin.verifyPassword",
                  !.valid = @ \/ (password = ADMIN_PASSWORD),
                  !.ret = IF password = ADMIN_PASSWORD THEN "valid"
                                                       ELSE "invalid"])

\* the server has run the mutation op for client p with result r; the
\* client may call again
Served(p, op, r) ==
  /\ Fits(r)
  /\ GotoWith(p, [procs[p] EXCEPT
                    !.op = op,
                    !.ret = IF r.s = Store THEN "unchanged" ELSE "changed"],
              r.s)

\* admin.adjustPoints is a publicProcedure that calls adjustUserPoints
AdminAdjustPoints(p) ==
  /\ procs[p].pc = "idle"
  /\ \E w \in Wallets, d \in AdjustDeltas :
       Served(p, "admin.adjustPoints",
              IF impl = "db" THEN DbAdjustUserPoints(Store, w, d)
                             ELSE MockAdjustUserPoints(Store, w, d))

\* admin.revokeTweetPoints is a publicProcedure that calls revokeTweetPoints
AdminRevokeTweetPoints(p) ==
  /\ procs[p].pc = "idle"
  /\ \E id \in 1..(Len(completions) + 1) :
       Served(p, "admin.revokeTweetPoints",
              IF impl = "db" THEN DbRevokeTweetPoints(Store, id)
                             ELSE MockRevokeTweetPoints(Store, id))

\* admin.cronCheckTweets is a publicProcedure that calls cronCheckAllTweets
AdminCronCheckTweets(p) ==
  /\ procs[p].pc = "idle"
  /\ \E statusOf \in
          [ActiveTweetCompletions(Store, Addresses) -> TweetStatuses] :
       Served(p, "admin.cronCheckTweets",
              IF impl = "db" THEN DbCronCheckAllTweets(Store, statusOf)
                             ELSE MockCronCheckAllTweets(Store))

\* the admin queries are publicProcedures that return what the store holds
AdminQuery(p) ==
  /\ procs[p].pc = "idle"
  /\ \E op \in AdminQueries :
       Goto(p, [procs[p] EXCEPT !.op = op, !.ret = "data"])

\* the store the clients find: Referrer has posted today's tweet
AdminSeed(i) ==
  IF i = "db" THEN DbCompleteDailyPost(ReferrerReady(i), Referrer, "http").s
  ELSE MockCompleteDailyPost(ReferrerReady(i), Referrer, "http").s

InitAdmin ==
  /\ impl \in {"db", "mock"}
  /\ InitStore(AdminSeed(impl))
  /\ xBonus = 100
  /\ mock = NoStore
  /\ pendingOAuthStates = NoPending
  /\ pendingDiscordStates = NoPending
  /\ collation = OneSpelling
  /\ procs = [p \in Procs |-> IdleProc]

NextAdmin ==
  \E p \in Procs :
    \/ VerifyPassword(p)
    \/ AdminAdjustPoints(p)
    \/ AdminRevokeTweetPoints(p)
    \/ AdminCronCheckTweets(p)
    \/ AdminQuery(p)

SpecAdmin == InitAdmin /\ [][NextAdmin]_vars

\* C38: the admin API is protected by the admin password.  No admin
\* mutation changes the ledger and no admin query returns data for a client
\* to whom admin.verifyPassword has not returned valid = true.
AdminProtected ==
  \A p \in Procs :
    /\ procs[p].op \in AdminMutations /\ procs[p].ret = "changed"
         => procs[p].valid
    /\ procs[p].op \in AdminQueries /\ procs[p].ret = "data"
         => procs[p].valid

(***************************************************************************)
(* SpecHistory: rewards.getHistory on a store the operations of Spec write  *)
(***************************************************************************)

\* the limits a caller passes: z.number().min(1).max(100), 50 when omitted
Limits == {1, 2, 50}

\* the rows of h at the indices I, newest first: rows are appended in the
\* order of their createdAt
RECURSIVE OrderByCreatedAtDesc(_, _)
OrderByCreatedAtDesc(h, I) ==
  IF I = {} THEN <<>>
  ELSE <<h[Max(I)]>> \o OrderByCreatedAtDesc(h, I \ {Max(I)})

\* .limit(pageSize).offset(offset), and slice(offset, offset + pageSize)
Slice(rows, offset, pageSize) ==
  IF offset >= Len(rows) THEN <<>>
  ELSE SubSeq(rows, offset + 1,
              IF offset + pageSize <= Len(rows) THEN offset + pageSize
                                               ELSE Len(rows))

DbGetPointsHistory(s, w, page, pageSize) ==
  LET offset == (page - 1) * pageSize
      rows == OrderByCreatedAtDesc(s.history,
                {i \in 1..Len(s.history) : s.history[i].walletAddress = w})
  IN [history |-> Slice(rows, offset, pageSize), total |-> Len(rows)]

MockGetPointsHistory(s, w, page, pageSize) ==
  LET offset == (page - 1) * pageSize
      ordered == OrderByCreatedAtDesc(s.history,
                   {i \in 1..Len(s.history) :
                      Normalize(s.history[i].walletAddress) = Normalize(w)})
  IN [history |-> Slice(ordered, offset, pageSize), total |-> Len(ordered)]

\* rewards.getHistory of the router: getPointsHistory(walletAddress,
\* input.limit), so that the limit is the page and the page size is its
\* default of 20
RewardsGetHistory(s, w, limit) == DbGetPointsHistory(s, w, limit, 20)

\* rewards.getHistory of the mock router:
\* getPointsHistory(input.walletAddress, 1, input.limit)
MockRewardsGetHistory(s, w, limit) == MockGetPointsHistory(s, w, 1, limit)

\* a caller queries rewards.getHistory for wallet w with a limit
GetHistoryCall ==
  /\ procs[1].pc \in {"idle", "done"}
  /\ \E w \in Wallets, limit \in Limits :
       Goto(1, [IdleProc EXCEPT !.op = "getHistory", !.pc = "gh_select",
                                !.w = w, !.limit = limit])

\* the query reads the rows: the mock answers in this one step
GhSelect ==
  /\ procs[1].pc = "gh_select"
  /\ LET me == procs[1]
         r == IF impl = "db" THEN RewardsGetHistory(Store, me.w, me.limit)
                             ELSE MockRewardsGetHistory(Store, me.w, me.limit)
     IN Goto(1, [me EXCEPT !.rows = r.history,
                           !.total = IF impl = "db" THEN 0 ELSE r.total,
                           !.pc = IF impl = "db" THEN "gh_count" ELSE "done",
                           !.ret = IF impl = "db" THEN "pending" ELSE "ok"])

\* the second query of the database version counts the wallet's rows
GhCount ==
  /\ procs[1].pc = "gh_count"
  /\ Goto(1, [procs[1] EXCEPT
                !.total = RewardsGetHistory(Store, procs[1].w,
                                            procs[1].limit).total,
                !.pc = "done", !.ret = "ok"])

\* the operations write the store before the query is made, so that what a
\* query returned is compared with the store it read
HistoryOperation ==
  /\ procs[1].pc = "idle"
  /\ Operation

InitHistory ==
  /\ impl \in {"db", "mock"}
  /\ \E s \in Seeds(impl) : InitStore(s)
  /\ xBonus = 100
  /\ mock = NoStore
  /\ pendingOAuthStates = NoPending
  /\ pendingDiscordStates = NoPending
  /\ collation = OneSpelling
  /\ procs = [p \in Procs |-> IdleProc]

NextHistory == HistoryOperation \/ GetHistoryCall \/ GhSelect \/ GhCount

SpecHistory == InitHistory /\ [][NextHistory]_vars

\* the min(n, total) most recent rows of wallet w in h, newest first
MostRecent(h, w, n) ==
  LET mine == {i \in 1..Len(h) : h[i].walletAddress = w}
      kept == {i \in mine : Cardinality({j \in mine : j > i}) < n}
  IN OrderByCreatedAtDesc(h, kept)

\* C39: rewards.getHistory for a wallet with limit n returns that wallet's
\* min(n, total) most recent PointsHistory rows, newest first, on the real
\* router and on the mock router
HistoryNewestFirst ==
  (procs[1].op = "getHistory" /\ procs[1].pc \in {"gh_count", "done"})
    => procs[1].rows = MostRecent(history, procs[1].w, procs[1].limit)

(***************************************************************************)
(* SpecOAuth: the X and Discord OAuth routes.  /x/auth and /discord/auth    *)
(* put a pending state in their map; a callback looks its state up,        *)
(* removes it, exchanges the code, fetches the user and connects.          *)
(***************************************************************************)

Callbacks == {"xCallback", "discordCallback"}
\* what a fetch of the provider gives: a 2xx answer, another answer, or a
\* rejected promise
FetchOutcomes == {"ok", "failed", "throws"}

\* the callback steps that come after the lookup
InFlight == {"oa_token", "oa_user", "oa_connect"}

\* the map a callback looks its state up in
PendingOf(op) ==
  IF op = "xCallback" THEN pendingOAuthStates ELSE pendingDiscordStates

\* the error and success codes of the redirect, by provider
Redirect(op, what) == (IF op = "xCallback" THEN "x_" ELSE "discord_") \o what

\* generateRandomString(32) draws a state that no pending entry and no
\* running callback of the provider holds
FreshStates(op) ==
  {state \in OAuthStates :
     /\ PendingOf(op)[state] = Null
     /\ \A p \in Procs :
          ~(procs[p].op = op /\ procs[p].pc \in InFlight
              /\ procs[p].state = state)}

\* GET /x/auth?wallet=w
XAuth ==
  /\ \E w \in Wallets, state \in FreshStates("xCallback") :
       pendingOAuthStates' = [pendingOAuthStates EXCEPT ![state] = w]
  /\ UNCHANGED <<store_vars, xBonus, impl, procs, collation, mock,
                 pendingDiscordStates>>

\* GET /discord/auth?wallet=w
DiscordAuth ==
  /\ \E w \in Wallets, state \in FreshStates("discordCallback") :
       pendingDiscordStates' = [pendingDiscordStates EXCEPT ![state] = w]
  /\ UNCHANGED <<store_vars, xBonus, impl, procs, collation, mock,
                 pendingOAuthStates>>

\* the interval of the X map deletes the entries older than ten minutes
XCleanup ==
  /\ \E old \in SUBSET {state \in OAuthStates :
                          pendingOAuthStates[state] # Null} :
       /\ old # {}
       /\ pendingOAuthStates' =
            [state \in OAuthStates |->
               IF state \in old THEN Null ELSE pendingOAuthStates[state]]
  /\ UNCHANGED <<store_vars, xBonus, impl, procs, collation, mock,
                 pendingDiscordStates>>

\* the interval of the Discord map
DiscordCleanup ==
  /\ \E old \in SUBSET {state \in OAuthStates :
                          pendingDiscordStates[state] # Null} :
       /\ old # {}
       /\ pendingDiscordStates' =
            [state \in OAuthStates |->
               IF state \in old THEN Null ELSE pendingDiscordStates[state]]
  /\ UNCHANGED <<store_vars, xBonus, impl, procs, collation, mock,
                 pendingOAuthStates>>

\* a mutant: the entry stays in the map
Delete_Keeps(pending, state) == pending

\* pendingOAuthStates.delete(state)
Delete(pending, state) == [pending EXCEPT ![state] = Null]

\* GET /x/callback?code=..&state=..: the lookup and the delete, which no
\* await separates
XCallback(p) ==
  /\ procs[p].pc = "idle"
  /\ \E state \in OAuthStates :
       LET pendingState == pendingOAuthStates[state]
           me == [IdleProc EXCEPT !.op = "xCallback", !.state = state]
       IN IF pendingState = Null
            THEN /\ procs' = [procs EXCEPT ![p] =
                       [me EXCEPT !.pc = "done", !.ret = "x_auth_expired"]]
                 /\ UNCHANGED pendingOAuthStates
            ELSE /\ procs' = [procs EXCEPT ![p] =
                       [me EXCEPT !.pc = "oa_token", !.w = pendingState]]
                 /\ pendingOAuthStates' = Delete(pendingOAuthStates, state)
  /\ UNCHANGED <<store_vars, xBonus, impl, collation, mock,
                 pendingDiscordStates>>

\* GET /discord/callback?code=..&state=..
DiscordCallback(p) ==
  /\ procs[p].pc = "idle"
  /\ \E state \in OAuthStates :
       LET pendingState == pendingDiscordStates[state]
           me == [IdleProc EXCEPT !.op = "discordCallback", !.state = state]
       IN IF pendingState = Null
            THEN /\ procs' = [procs EXCEPT ![p] =
                       [me EXCEPT !.pc = "done",
                                  !.ret = "discord_auth_expired"]]
                 /\ UNCHANGED pendingDiscordStates
            ELSE /\ procs' = [procs EXCEPT ![p] =
                       [me EXCEPT !.pc = "oa_token", !.w = pendingState]]
                 /\ pendingDiscordStates' = Delete(pendingDiscordStates, state)
  /\ UNCHANGED <<store_vars, xBonus, impl, collation, mock,
                 pendingOAuthStates>>

\* the code is exchanged for an access token
OaToken(p) ==
  /\ procs[p].pc = "oa_token"
  /\ \E outcome \in FetchOutcomes :
       Goto(p, IF outcome = "ok" THEN [procs[p] EXCEPT !.pc = "oa_user"]
               ELSE [procs[p] EXCEPT
                       !.pc = "done",
                       !.ret = Redirect(procs[p].op,
                                 IF outcome = "failed" THEN "token_failed"
                                                       ELSE "auth_error")])

\* the user of the access token is fetched
OaUser(p) ==
  /\ procs[p].pc = "oa_user"
  /\ \E outcome \in FetchOutcomes,
        n \in IF procs[p].op = "xCallback" THEN XNames ELSE DiscordNames :
       Goto(p, IF outcome = "ok"
                 THEN [procs[p] EXCEPT !.pc = "oa_connect", !.username = n]
               ELSE [procs[p] EXCEPT
                       !.pc = "done",
                       !.ret = Redirect(procs[p].op,
                                 IF outcome = "failed" THEN "user_failed"
                                                       ELSE "auth_error")])

\* connectXAccount or connectDiscordAccount for the wallet of the pending
\* state
OaConnect(p) ==
  /\ procs[p].pc = "oa_connect"
  /\ LET me == procs[p]
         r == IF me.op = "xCallback"
                THEN DbConnectXAccount(Store, me.w, me.username, xBonus)
                ELSE DbConnectDiscordAccount(Store, me.w, me.username, "d1")
     IN GotoWith(p, [me EXCEPT
                       !.pc = "done",
                       !.ret = Redirect(me.op, IF r.ok THEN "connected"
                                               ELSE "already_connected")],
                 r.s)

\* the store in which both wallets have fetched their profile
ProfilesFetched ==
  DbGetOrCreateWalletProfile(DbGetOrCreateWalletProfile(EmptyStore, "w1"),
                             "w2")

InitOAuth ==
  /\ impl = "db"
  /\ InitStore(ProfilesFetched)
  /\ xBonus = 100
  /\ mock = NoStore
  /\ pendingOAuthStates = NoPending
  /\ pendingDiscordStates = NoPending
  /\ collation = OneSpelling
  /\ procs = [p \in Procs |-> IdleProc]

\* the two requests that call back, each once
Callers == {1, 2}

NextOAuth ==
  \/ XAuth
  \/ DiscordAuth
  \/ XCleanup
  \/ DiscordCleanup
  \/ \E p \in Callers : XCallback(p)
  \/ \E p \in Callers : DiscordCallback(p)
  \/ \E p \in Callers : OaToken(p)
  \/ \E p \in Callers : OaUser(p)
  \/ \E p \in Callers : OaConnect(p)

SpecOAuth == InitOAuth /\ [][NextOAuth]_vars

\* the social account fields of a profile
SocialAccount(profile) ==
  <<profile.xConnected, profile.xUsername, profile.discordConnected,
    profile.discordUsername, profile.discordId>>

\* no two running callbacks of one provider hold the same state
OneCallbackPerState ==
  \A p, q \in Procs :
    ( /\ p # q
      /\ procs[p].op \in Callbacks
      /\ procs[p].op = procs[q].op
      /\ procs[p].pc \in InFlight
      /\ procs[q].pc \in InFlight )
    => procs[p].state # procs[q].state

\* the map of a callback as the step leaves it
PendingAfter(op) ==
  IF op = "xCallback" THEN pendingOAuthStates' ELSE pendingDiscordStates'

\* callback p passes the lookup in this step
Accepted(p) ==
  /\ procs[p].pc = "idle"
  /\ procs'[p].pc = "oa_token"

\* callback p is turned away at the lookup in this step
Rejected(p) ==
  /\ procs[p].pc = "idle"
  /\ procs'[p].pc = "done"
  /\ procs'[p].op \in Callbacks

OneConnectPerStateStep ==
  /\ \A p \in Procs :
       Accepted(p) =>
         /\ PendingOf(procs'[p].op)[procs'[p].state] # Null
         /\ PendingAfter(procs'[p].op)[procs'[p].state] = Null
         /\ procs'[p].w = PendingOf(procs'[p].op)[procs'[p].state]
  /\ \A p \in Procs :
       Rejected(p) =>
         /\ PendingOf(procs'[p].op)[procs'[p].state] = Null
         /\ UNCHANGED store_vars
  /\ \A w \in Addresses :
       SocialAccount(profiles'[w]) # SocialAccount(profiles[w]) =>
         \E p \in Procs : /\ procs[p].pc = "oa_connect"
                          /\ procs'[p].pc = "done"
                          /\ procs[p].w = w
  /\ OneCallbackPerState'

\* C40: each pending OAuth state authorizes at most one connect.  A callback
\* passes the lookup only on a state that is pending, the entry is removed
\* in the same step and so before the token exchange, a callback on a state
\* that is not pending is turned away and changes nothing, no two running
\* callbacks hold the same state, and a social account changes only for the
\* wallet the pending state was created for
OneConnectPerState == [][OneConnectPerStateStep]_vars

\* a callback has connected X for the wallet of its state, and a second
\* callback presenting the same state has been turned away as expired
OneConnectPerStateWitness ==
  \E p, q \in Procs :
    /\ p # q
    /\ procs[p].op = "xCallback"
    /\ procs[p].ret = "x_connected"
    /\ profiles[procs[p].w].xConnected
    /\ procs[q].op = "xCallback"
    /\ procs[q].state = procs[p].state
    /\ procs[q].ret = "x_auth_expired"
    /\ pendingOAuthStates[procs[p].state] = Null

====
